---- MODULE Spec2Model ----
(***************************************************************************)
(* The UECda arbiter's turn loop (uecda_server/game/engine.py) with its    *)
(* card analyzer (game/analyzer.py), move validator (game/validator.py)    *)
(* and session/field/player state (models/game_state.py, models/player.py) *)
(* as a state machine.  One step of the machine is one iteration of the    *)
(* while loop of GameEngine.run_game.                                      *)
(*                                                                         *)
(* A card is a pair <<suit, rank>>: suit 0..3 = Spade, Heart, Diamond,     *)
(* Club, rank 1..13 = 3,4,...,K,A,2 (the column index of the table).  The  *)
(* Joker is <<4, 0>>.                                                      *)
(***************************************************************************)
EXTENDS Integers, Sequences, FiniteSets, TLC

\* ------------------------------------------------------------------ cards
SPADE == 0
HEART == 1
DIAMOND == 2
CLUB == 3
JOKER_SUIT == 4

RANK_THREE == 1
RANK_EIGHT == 6
RANK_ELEVEN == 9
RANK_TWO == 13

Suits == SPADE..CLUB
Ranks == RANK_THREE..RANK_TWO
Joker == <<JOKER_SUIT, 0>>
NormalCards == Suits \X Ranks

\* create_full_deck: 52 suit cards and one joker
FullDeck == NormalCards \cup {Joker}

NumPlayers == 5
Players == 0..(NumPlayers - 1)

SENNICHITE_THRESHOLD == 20

\* network/server.py: response codes and game end codes
\* PlayerRank
DAIFUGO == 0
FUGO == 1
HEIMIN == 2
HINMIN == 3
DAIHINMIN == 4

ACCEPT == 9
REJECT == 8
GAME_CONTINUE == 0
GAME_END == 1
ALL_GAMES_END == 2

\* RulesConfig: the required rules are on; 11-back is optional (off by
\* default) and a session runs with it off or on
DefaultRules ==
    [revolution |-> TRUE, eight_stop |-> TRUE, lock |-> TRUE,
     card_exchange |-> TRUE, eleven_back |-> FALSE]

\* ----------------------------------------------------------------- bounds
\* the largest number of occupied cells in a submitted table
MaxCells == 2

\* ------------------------------------------------------------- submission
\* A submitted table, reduced to what get_submitted_cards reads: the cells
\* of rows 0..3, columns 1..13 holding 1 (ones) or 2 (twos), and whether a
\* 2 stands in a cell of rows 0..3 that names no rank (alone).
GetSubmittedCards(t) ==
    [cards |-> t.ones \cup t.twos \cup
               (IF t.twos = {} /\ t.alone THEN {Joker} ELSE {}),
     joker_positions |-> t.twos]

\* ---------------------------------------------------------------- analyzer
SuitBit(s) == 2 ^ s

\* OR of 1 << suit over the suits of a set of positions
SuitPatternOf(pos) ==
    LET bit(s) == IF \E c \in pos : c[1] = s THEN SuitBit(s) ELSE 0
    IN  bit(0) + bit(1) + bit(2) + bit(3) + bit(4)

MinRank(pos) == CHOOSE r \in {c[2] : c \in pos} : \A c \in pos : r <= c[2]
MaxRank(pos) == CHOOSE r \in {c[2] : c \in pos} : \A c \in pos : r >= c[2]

Analysis(base, cnt, pat, type, err, sub) ==
    [base_rank |-> base, count |-> cnt, suit_pattern |-> pat,
     card_type |-> type, error |-> err, has_joker_substitute |-> sub]

\* CardAnalyzer._analyze_multiple that needs two cards for a ladder, not three
AnalyzeMultipleOfTwo(cards, joker_positions, has_joker, revolution) ==
    LET all_positions == cards \cup joker_positions
        n == Cardinality(all_positions)
        suits == {c[1] : c \in all_positions}
        ranks == {c[2] : c \in all_positions}
        lo == MinRank(all_positions)
        hi == MaxRank(all_positions)
        is_sequence == Cardinality(suits) = 1 /\ hi - lo + 1 = n
        suit_pattern == SuitPatternOf(all_positions)
    IN  IF all_positions = {}
        THEN Analysis(-1, 0, 0, "empty", "none", FALSE)
        ELSE IF is_sequence
        THEN IF n < 2
             THEN Analysis(lo, n, suit_pattern, "sequence",
                           "sequence_too_short", FALSE)
             ELSE Analysis(IF revolution THEN hi ELSE lo, n, suit_pattern,
                           "sequence", "none", has_joker)
        ELSE IF Cardinality(ranks) = 1
        THEN IF suit_pattern >= 16 /\ suit_pattern # 31
             THEN Analysis(lo, n, suit_pattern, "pair", "invalid_suit", FALSE)
             ELSE Analysis(lo, n, suit_pattern, "pair", "none", has_joker)
        ELSE Analysis(-1, n, 0, "empty", "count_mismatch", FALSE)

\* CardAnalyzer._analyze_multiple
AnalyzeMultiple(cards, joker_positions, has_joker, revolution) ==
    LET all_positions == cards \cup joker_positions
        n == Cardinality(all_positions)
        suits == {c[1] : c \in all_positions}
        ranks == {c[2] : c \in all_positions}
        lo == MinRank(all_positions)
        hi == MaxRank(all_positions)
        \* one suit, so the ranks are distinct: consecutive iff they span n
        is_sequence == Cardinality(suits) = 1 /\ hi - lo + 1 = n
        suit_pattern == SuitPatternOf(all_positions)
    IN  IF all_positions = {}
        THEN Analysis(-1, 0, 0, "empty", "none", FALSE)
        ELSE IF is_sequence
        THEN IF n < 3
             THEN Analysis(lo, n, suit_pattern, "sequence",
                           "sequence_too_short", FALSE)
             ELSE Analysis(IF revolution THEN hi ELSE lo, n, suit_pattern,
                           "sequence", "none", has_joker)
        ELSE IF Cardinality(ranks) = 1
        THEN IF suit_pattern >= 16 /\ suit_pattern # 31
             THEN Analysis(lo, n, suit_pattern, "pair", "invalid_suit", FALSE)
             ELSE Analysis(lo, n, suit_pattern, "pair", "none", has_joker)
        ELSE Analysis(-1, n, 0, "empty", "count_mismatch", FALSE)

\* CardAnalyzer.analyze
Analyze(cards, joker_positions, revolution) ==
    LET card_count == Cardinality(cards)
        has_joker == Joker \in cards \/ joker_positions # {}
        joker_count == IF has_joker THEN 1 ELSE 0
        normal_cards == cards \ {Joker}
    IN  IF card_count = 0
        THEN Analysis(-1, 0, 0, "empty", "none", FALSE)
        ELSE IF joker_count > 1
        THEN Analysis(-1, card_count, 0, "empty", "multiple_jokers", FALSE)
        ELSE IF card_count = 1 /\ has_joker /\ normal_cards = {}
        THEN Analysis(14, 1, 0, "joker_single", "none", FALSE)
        ELSE IF card_count = 1
        THEN LET card == CHOOSE c \in normal_cards : TRUE
             IN  Analysis(card[2], 1, SuitBit(card[1]), "single", "none", FALSE)
        ELSE AnalyzeMultiple(normal_cards, joker_positions, has_joker,
                             revolution)

\* CardAnalysis.is_valid / is_pass
AnalysisIsValid(a) == a.error = "none"
AnalysisIsPass(a) == a.card_type = "empty"

\* check_special_card with the span of a ladder always counted upwards
\* from base_rank
CheckSpecialCardUpwards(a, special_rank, revolution) ==
    IF a.card_type = "sequence"
    THEN a.base_rank <= special_rank
         /\ special_rank <= a.base_rank + a.count - 1
    ELSE a.base_rank = special_rank

\* CardAnalyzer.check_special_card
CheckSpecialCard(a, special_rank, revolution) ==
    IF a.card_type = "sequence"
    THEN LET low == IF revolution THEN a.base_rank - a.count + 1
                    ELSE a.base_rank
             high == IF revolution THEN a.base_rank
                     ELSE a.base_rank + a.count - 1
         IN  low <= special_rank /\ special_rank <= high
    ELSE a.base_rank = special_rank

\* --------------------------------------------------------------- validator
\* MoveValidator._check_hand_contains
CheckHandContains(hand, submitted, joker_positions) ==
    LET joker_used == joker_positions # {}
    IN  IF joker_used /\ Joker \notin hand
        THEN FALSE
        ELSE \A card \in submitted :
                \/ card = Joker
                \/ card \in joker_positions
                \/ card \in hand

\* _compare_with_field that lets an equal rank through in normal order
CompareWithFieldEqualRank(a, fld, revolution, is_joker_single) ==
    IF a.card_type = "joker_single"
    THEN fld.card_type = "single"
    ELSE IF /\ is_joker_single
            /\ a.card_type = "single"
            /\ a.base_rank = RANK_THREE
            /\ a.suit_pattern = SuitBit(SPADE)
    THEN TRUE
    ELSE IF a.count # fld.card_count
    THEN FALSE
    ELSE IF a.card_type # fld.card_type
    THEN FALSE
    ELSE IF fld.is_locked /\ a.suit_pattern # fld.suit_pattern
    THEN FALSE
    ELSE IF a.card_type = "pair"
    THEN IF revolution
         THEN ~(a.base_rank >= fld.base_rank)
         ELSE ~(a.base_rank <= fld.base_rank)
    ELSE IF revolution
         THEN LET seq_normal == a.card_type = "sequence" /\ ~revolution
                  submitted_highest ==
                      IF seq_normal THEN a.base_rank + a.count - 1
                      ELSE a.base_rank
                  field_highest ==
                      IF seq_normal THEN fld.base_rank + fld.card_count - 1
                      ELSE fld.base_rank
              IN  ~(submitted_highest >= field_highest)
         ELSE ~(a.base_rank < fld.base_rank)

\* _compare_with_field that accepts a joker-single on any field
CompareWithFieldJokerAnywhere(a, fld, revolution, is_joker_single) ==
    IF a.card_type = "joker_single"
    THEN TRUE
    ELSE IF /\ is_joker_single
            /\ a.card_type = "single"
            /\ a.base_rank = RANK_THREE
            /\ a.suit_pattern = SuitBit(SPADE)
    THEN TRUE
    ELSE IF a.count # fld.card_count
    THEN FALSE
    ELSE IF a.card_type # fld.card_type
    THEN FALSE
    ELSE IF fld.is_locked /\ a.suit_pattern # fld.suit_pattern
    THEN FALSE
    ELSE IF a.card_type = "pair"
    THEN IF revolution
         THEN ~(a.base_rank >= fld.base_rank)
         ELSE ~(a.base_rank <= fld.base_rank)
    ELSE IF revolution
         THEN LET seq_normal == a.card_type = "sequence" /\ ~revolution
                  submitted_highest ==
                      IF seq_normal THEN a.base_rank + a.count - 1
                      ELSE a.base_rank
                  field_highest ==
                      IF seq_normal THEN fld.base_rank + fld.card_count - 1
                      ELSE fld.base_rank
              IN  ~(submitted_highest >= field_highest)
         ELSE ~(a.base_rank <= fld.base_rank)

\* _compare_with_field without the Spade-3 case
CompareWithFieldNoSpadeThree(a, fld, revolution, is_joker_single) ==
    IF a.card_type = "joker_single"
    THEN fld.card_type = "single"
    ELSE IF /\ FALSE
            /\ a.card_type = "single"
            /\ a.base_rank = RANK_THREE
            /\ a.suit_pattern = SuitBit(SPADE)
    THEN TRUE
    ELSE IF a.count # fld.card_count
    THEN FALSE
    ELSE IF a.card_type # fld.card_type
    THEN FALSE
    ELSE IF fld.is_locked /\ a.suit_pattern # fld.suit_pattern
    THEN FALSE
    ELSE IF a.card_type = "pair"
    THEN IF revolution
         THEN ~(a.base_rank >= fld.base_rank)
         ELSE ~(a.base_rank <= fld.base_rank)
    ELSE IF revolution
         THEN LET seq_normal == a.card_type = "sequence" /\ ~revolution
                  submitted_highest ==
                      IF seq_normal THEN a.base_rank + a.count - 1
                      ELSE a.base_rank
                  field_highest ==
                      IF seq_normal THEN fld.base_rank + fld.card_count - 1
                      ELSE fld.base_rank
              IN  ~(submitted_highest >= field_highest)
         ELSE ~(a.base_rank <= fld.base_rank)

\* _compare_with_field without the card count test
CompareWithFieldAnyCount(a, fld, revolution, is_joker_single) ==
    IF a.card_type = "joker_single"
    THEN fld.card_type = "single"
    ELSE IF /\ is_joker_single
            /\ a.card_type = "single"
            /\ a.base_rank = RANK_THREE
            /\ a.suit_pattern = SuitBit(SPADE)
    THEN TRUE
    ELSE IF FALSE
    THEN FALSE
    ELSE IF a.card_type # fld.card_type
    THEN FALSE
    ELSE IF fld.is_locked /\ a.suit_pattern # fld.suit_pattern
    THEN FALSE
    ELSE IF a.card_type = "pair"
    THEN IF revolution
         THEN ~(a.base_rank >= fld.base_rank)
         ELSE ~(a.base_rank <= fld.base_rank)
    ELSE IF revolution
         THEN LET seq_normal == a.card_type = "sequence" /\ ~revolution
                  submitted_highest ==
                      IF seq_normal THEN a.base_rank + a.count - 1
                      ELSE a.base_rank
                  field_highest ==
                      IF seq_normal THEN fld.base_rank + fld.card_count - 1
                      ELSE fld.base_rank
              IN  ~(submitted_highest >= field_highest)
         ELSE ~(a.base_rank <= fld.base_rank)

\* _compare_with_field without the lock test
CompareWithFieldNoLock(a, fld, revolution, is_joker_single) ==
    IF a.card_type = "joker_single"
    THEN fld.card_type = "single"
    ELSE IF /\ is_joker_single
            /\ a.card_type = "single"
            /\ a.base_rank = RANK_THREE
            /\ a.suit_pattern = SuitBit(SPADE)
    THEN TRUE
    ELSE IF a.count # fld.card_count
    THEN FALSE
    ELSE IF a.card_type # fld.card_type
    THEN FALSE
    ELSE IF FALSE
    THEN FALSE
    ELSE IF a.card_type = "pair"
    THEN IF revolution
         THEN ~(a.base_rank >= fld.base_rank)
         ELSE ~(a.base_rank <= fld.base_rank)
    ELSE IF revolution
         THEN LET seq_normal == a.card_type = "sequence" /\ ~revolution
                  submitted_highest ==
                      IF seq_normal THEN a.base_rank + a.count - 1
                      ELSE a.base_rank
                  field_highest ==
                      IF seq_normal THEN fld.base_rank + fld.card_count - 1
                      ELSE fld.base_rank
              IN  ~(submitted_highest >= field_highest)
         ELSE ~(a.base_rank <= fld.base_rank)

\* MoveValidator._compare_with_field: TRUE iff the result is_valid
CompareWithField(a, fld, revolution, is_joker_single) ==
    IF a.card_type = "joker_single"
    THEN fld.card_type = "single"
    ELSE IF /\ is_joker_single
            /\ a.card_type = "single"
            /\ a.base_rank = RANK_THREE
            /\ a.suit_pattern = SuitBit(SPADE)
    THEN TRUE
    ELSE IF a.count # fld.card_count
    THEN FALSE
    ELSE IF a.card_type # fld.card_type
    THEN FALSE
    ELSE IF fld.is_locked /\ a.suit_pattern # fld.suit_pattern
    THEN FALSE
    ELSE IF a.card_type = "pair"
    THEN IF revolution
         THEN ~(a.base_rank >= fld.base_rank)
         ELSE ~(a.base_rank <= fld.base_rank)
    ELSE IF revolution
         THEN LET seq_normal == a.card_type = "sequence" /\ ~revolution
                  submitted_highest ==
                      IF seq_normal THEN a.base_rank + a.count - 1
                      ELSE a.base_rank
                  field_highest ==
                      IF seq_normal THEN fld.base_rank + fld.card_count - 1
                      ELSE fld.base_rank
              IN  ~(submitted_highest >= field_highest)
         ELSE ~(a.base_rank <= fld.base_rank)

\* MoveValidator.validate: "pass", "reject" or "accept"
\* (is_valid and is_pass / not is_valid / is_valid and not is_pass)
Validate(a, hand, cards, fld, revolution, is_joker_single, joker_positions) ==
    IF AnalysisIsPass(a) THEN "pass"
    ELSE IF ~AnalysisIsValid(a) THEN "reject"
    ELSE IF ~CheckHandContains(hand, cards, joker_positions) THEN "reject"
    ELSE IF fld.card_type = "empty" THEN "accept"
    ELSE IF CompareWithField(a, fld, revolution, is_joker_single)
    THEN "accept"
    ELSE "reject"

\* ------------------------------------------------------------------ state
VARIABLES
    rules,               \* RulesConfig of the session
    hands,               \* GameEngine.hands: player id -> set of cards
    field,               \* GameState.field (FieldState)
    current_player,      \* GameState.current_player
    last_player,         \* GameState.last_player
    is_revolution,       \* GameState.is_revolution
    is_eleven_back,      \* GameState.is_eleven_back
    is_joker_single,     \* GameState.is_joker_single
    consecutive_passes,  \* GameState.consecutive_passes
    finished_count,      \* GameState.finished_count
    has_passed,          \* Player.has_passed, by player id
    has_finished,        \* Player.has_finished, by player id
    finish_order,        \* run_game's finish_order list
    pc,                  \* "loop": in the while loop; "done": run_game returned
    game_number,         \* GameState.game_number
    total_games,         \* GameEngine._total_games
    points,              \* run_games' points, by player id
    player_rank,         \* Player.rank, by player id
    game_code,           \* the last game-state code sent: "none", "continue", "end"
    server,              \* GameServer and main(): sockets, players, log, result
    peers,               \* the connecting programs, by peer
    backlog,             \* connections made and not yet accepted, in order
    codec,               \* a TableArray, its bytes and the cards read from it
    \* history variables (not program state)
    discarded,           \* number of cards that have left the field
    pass_run,            \* passes in a row since the last accepted play
    last_turn,           \* what the last move request did
    pending,             \* the round clear no move has been requested after yet
    io,                  \* the frames written and read by the last iteration
                         \* that requested a move, in order
    step                 \* what the single step of StepSpec did

vars == <<rules, hands, field, current_player, last_player, is_revolution,
          is_eleven_back, is_joker_single, consecutive_passes, finished_count,
          has_passed, has_finished, finish_order, pc, game_number,
          total_games, points, player_rank, game_code, server, peers,
          backlog, codec, discarded, pass_run, last_turn, pending, io, step>>

\* FieldState() / FieldState.clear
EmptyField ==
    [cards |-> {}, card_type |-> "empty", card_count |-> 0, base_rank |-> -1,
     suit_pattern |-> 0, is_locked |-> FALSE, lock_count |-> 0]

\* FieldState.is_empty
FieldIsEmpty(fld) == fld.card_type = "empty"

\* GameState.effective_revolution
EffectiveRevolution(rev, back) == rev # back

\* ------------------------------------------------------------------ engine
\* The engine's mutable state as one record g, so that the methods below
\* compose in the order run_game calls them.
EngineState ==
    [hands |-> hands, field |-> field, current_player |-> current_player,
     last_player |-> last_player, is_revolution |-> is_revolution,
     is_eleven_back |-> is_eleven_back, is_joker_single |-> is_joker_single,
     consecutive_passes |-> consecutive_passes,
     finished_count |-> finished_count, has_passed |-> has_passed,
     has_finished |-> has_finished, finish_order |-> finish_order]

\* _clear_field with consecutive_passes left as it is
ClearFieldKeepsPasses(g) ==
    [g EXCEPT !.field = EmptyField,
              !.consecutive_passes = g.consecutive_passes,
              !.is_joker_single = FALSE,
              !.is_eleven_back = FALSE,
              !.has_passed = [p \in Players |-> FALSE],
              !.current_player = IF g.last_player >= 0 THEN g.last_player
                                 ELSE g.current_player]

\* GameEngine._clear_field (GameState.reset_for_new_round, then
\* Player.reset_turn_state for everyone, then the leader)
ClearField(g) ==
    [g EXCEPT !.field = EmptyField,
              !.consecutive_passes = 0,
              !.is_joker_single = FALSE,
              !.is_eleven_back = FALSE,
              !.has_passed = [p \in Players |-> FALSE],
              !.current_player = IF g.last_player >= 0 THEN g.last_player
                                 ELSE g.current_player]

\* GameEngine._check_all_passed
CheckAllPassed(g) ==
    LET active_players == {p \in Players : ~g.has_finished[p]}
        passed_count == Cardinality({p \in active_players : g.has_passed[p]})
    IN  passed_count >= Cardinality(active_players) - 1

RECURSIVE SkipFinished(_, _, _)
SkipFinished(fin, next_player, attempts) ==
    IF fin[next_player] /\ attempts < NumPlayers
    THEN SkipFinished(fin, (next_player + 1) % NumPlayers, attempts + 1)
    ELSE next_player

\* GameEngine._advance_player (direction is always 1)
AdvancePlayer(g) ==
    [g EXCEPT !.current_player =
        SkipFinished(g.has_finished, (g.current_player + 1) % NumPlayers, 0)]

\* the 8-cut test of _apply_special_rules
IsEightStop(a, rl, revolution) ==
    rl.eight_stop /\ CheckSpecialCard(a, RANK_EIGHT, revolution)

\* _apply_special_rules with a ladder of four counted as a revolution
ApplySpecialRulesLadderOfFour(g, a, rl) ==
    LET revolution == EffectiveRevolution(g.is_revolution, g.is_eleven_back)
        g1 == [g EXCEPT !.is_joker_single = (a.card_type = "joker_single")]
        g2 == IF IsEightStop(a, rl, revolution) THEN ClearField(g1) ELSE g1
        is_revolution_play ==
            \/ a.card_type = "pair" /\ a.count >= 4
            \/ a.card_type = "sequence" /\ a.count >= 4
        g3 == IF rl.revolution /\ is_revolution_play
              THEN [g2 EXCEPT !.is_revolution = ~g2.is_revolution]
              ELSE g2
    IN  IF rl.eleven_back /\ CheckSpecialCard(a, RANK_ELEVEN, revolution)
        THEN [g3 EXCEPT !.is_eleven_back = ~g3.is_eleven_back]
        ELSE g3

\* _apply_special_rules with is_joker_single set by a joker-single and
\* left alone by every other play
ApplySpecialRulesJokerKept(g, a, rl) ==
    LET revolution == EffectiveRevolution(g.is_revolution, g.is_eleven_back)
        g1 == IF a.card_type = "joker_single"
              THEN [g EXCEPT !.is_joker_single = TRUE]
              ELSE g
        g2 == IF IsEightStop(a, rl, revolution) THEN ClearField(g1) ELSE g1
        is_revolution_play ==
            \/ a.card_type = "pair" /\ a.count >= 4
            \/ a.card_type = "sequence" /\ a.count >= 5
        g3 == IF rl.revolution /\ is_revolution_play
              THEN [g2 EXCEPT !.is_revolution = ~g2.is_revolution]
              ELSE g2
    IN  IF rl.eleven_back /\ CheckSpecialCard(a, RANK_ELEVEN, revolution)
        THEN [g3 EXCEPT !.is_eleven_back = ~g3.is_eleven_back]
        ELSE g3

\* GameEngine._apply_special_rules
ApplySpecialRules(g, a, rl) ==
    LET revolution == EffectiveRevolution(g.is_revolution, g.is_eleven_back)
        g1 == [g EXCEPT !.is_joker_single = (a.card_type = "joker_single")]
        g2 == IF IsEightStop(a, rl, revolution) THEN ClearField(g1) ELSE g1
        is_revolution_play ==
            \/ a.card_type = "pair" /\ a.count >= 4
            \/ a.card_type = "sequence" /\ a.count >= 5
        g3 == IF rl.revolution /\ is_revolution_play
              THEN [g2 EXCEPT !.is_revolution = ~g2.is_revolution]
              ELSE g2
    IN  IF rl.eleven_back /\ CheckSpecialCard(a, RANK_ELEVEN, revolution)
        THEN [g3 EXCEPT !.is_eleven_back = ~g3.is_eleven_back]
        ELSE g3

\* _update_lock with the lock following lock_count = 2 instead of latching
UpdateLockUnlatched(g, a, rl) ==
    IF ~rl.lock THEN g
    ELSE IF FieldIsEmpty(g.field)
    THEN [g EXCEPT !.field.is_locked = FALSE, !.field.lock_count = 0]
    ELSE IF a.suit_pattern = g.field.suit_pattern
    THEN [g EXCEPT !.field.lock_count = g.field.lock_count + 1,
                   !.field.is_locked = (g.field.lock_count + 1 = 2)]
    ELSE [g EXCEPT !.field.lock_count = 1, !.field.is_locked = FALSE]

\* GameEngine._update_lock: the field it reads already holds the new play
UpdateLock(g, a, rl) ==
    IF ~rl.lock THEN g
    ELSE IF FieldIsEmpty(g.field)
    THEN [g EXCEPT !.field.is_locked = FALSE, !.field.lock_count = 0]
    ELSE IF a.suit_pattern = g.field.suit_pattern
    THEN [g EXCEPT !.field.lock_count = g.field.lock_count + 1,
                   !.field.is_locked =
                        \/ g.field.is_locked
                        \/ g.field.lock_count + 1 >= 2]
    ELSE [g EXCEPT !.field.lock_count = 1, !.field.is_locked = FALSE]

\* the cards _process_valid_move takes out of the hand: the joker for the
\* joker itself and for every substituted position, the card otherwise
RemovedFromHand(cards, joker_positions) ==
    (cards \ ({Joker} \cup joker_positions)) \cup
    (IF Joker \in cards \/ cards \cap joker_positions # {}
     THEN {Joker} ELSE {})

\* GameEngine._process_valid_move
ProcessValidMove(g, pid, cards, a, joker_positions, rl) ==
    LET g1 == [g EXCEPT
                 !.hands[pid] = g.hands[pid] \
                                RemovedFromHand(cards, joker_positions),
                 !.field.cards = cards,
                 !.field.card_type = a.card_type,
                 !.field.card_count = a.count,
                 !.field.base_rank = a.base_rank,
                 !.field.suit_pattern = a.suit_pattern,
                 !.last_player = pid,
                 !.consecutive_passes = 0]
    IN  UpdateLock(ApplySpecialRules(g1, a, rl), a, rl)

\* run_game, "Check for finish" after an accepted play
CheckFinish(g, current) ==
    IF g.hands[current] = {}
    THEN [g EXCEPT !.has_finished[current] = TRUE,
                   !.finish_order = Append(g.finish_order, current),
                   !.finished_count = g.finished_count + 1]
    ELSE g

\* the pass branch without the passed-this-trick flag
PassMoveUnmarked(g, current) ==
    [g EXCEPT !.consecutive_passes = g.consecutive_passes + 1]

\* run_game, the pass branch
PassMove(g, current) ==
    [g EXCEPT !.has_passed[current] = TRUE,
              !.consecutive_passes = g.consecutive_passes + 1]

\* random.shuffle(remaining): every order of the remaining players
Shuffles(S) ==
    {f \in [1..Cardinality(S) -> S] : \A i, j \in DOMAIN f : f[i] = f[j] => i = j}

\* GameEngine._resolve_sennichite, for one outcome of the shuffle
ResolveSennichite(g, shuffled) ==
    [g EXCEPT !.finish_order = g.finish_order \o shuffled,
              !.has_finished = [p \in Players |-> TRUE]]

\* run_game without the placing of the last remaining player
HandleLastPlayerUnplaced(g) ==
    g

\* run_game, "Handle last remaining player": the first unfinished player
HandleLastPlayer(g) ==
    IF g.finished_count = 4 /\ \E p \in Players : ~g.has_finished[p]
    THEN LET last == CHOOSE p \in Players :
                        /\ ~g.has_finished[p]
                        /\ \A q \in Players : ~g.has_finished[q] => p <= q
         IN  [g EXCEPT !.has_finished[last] = TRUE,
                       !.finish_order = Append(g.finish_order, last)]
    ELSE g

\* ------------------------------------------------------------ the position
\* The model starts from positions of a game in progress at a trick
\* boundary: the field has just flowed, nobody has passed, and the cards
\* that no hand holds have been played.  A player without cards has
\* finished, in the order of finish_order.
H(c0, c1, c2, c3, c4) == <<c0, c1, c2, c3, c4>>

Position(h, rl, rev, last) ==
    [hands |-> h, rules |-> rl, is_revolution |-> rev, last_player |-> last]

\* three players left, the joker and an 8 among their five cards
EndgameOfThree ==
    Position(H({<<SPADE, 3>>, <<CLUB, 6>>}, {<<HEART, 5>>},
               {<<HEART, 9>>, Joker}, {}, {}),
             DefaultRules, FALSE, 2)

\* all five players left, 11-back on
EndgameOfFive ==
    Position(H({<<SPADE, 1>>}, {<<HEART, 1>>}, {Joker}, {<<HEART, 5>>},
               {<<CLUB, 6>>, <<HEART, 9>>}),
             [DefaultRules EXCEPT !.eleven_back = TRUE], FALSE, 4)

Positions == {EndgameOfThree, EndgameOfFive}

HandsOf(d) == [p \in Players |-> d.hands[p + 1]]

\* the cells a submitted table may occupy: the cards of the positions
Cells == (UNION {d.hands[p + 1] : d \in Positions, p \in Players}) \ {Joker}

Tables(cells) ==
    UNION {{[ones |-> S \ w, twos |-> w, alone |-> b] :
                w \in SUBSET S, b \in BOOLEAN} :
           S \in {S \in SUBSET cells : Cardinality(S) <= MaxCells}}

\* the history counter of cards off the field stops one above the deck, a
\* value no run that conserves the cards reaches
Saturate(n) ==
    IF n > Cardinality(FullDeck) THEN Cardinality(FullDeck) + 1 ELSE n

\* GameLogger.log_game_end, "new_ranks": the rank each player has when
\* run_game writes the record
LogGameEnd(rnk) == [p \in Players |-> rnk[p]]

NoClear == [kind |-> "none", leader |-> -1, live |-> FALSE]

NoTurn ==
    [asked |-> -1, accepted |-> FALSE, after |-> NoClear,
     all_passed |-> FALSE, eight_stop |-> FALSE, on_field |-> FALSE,
     unasked |-> {}, not_owned |-> FALSE, jokers |-> 0, put |-> 0, took |-> 0,
     finished |-> FALSE, passed_on_field |-> FALSE,
     new_ranks |-> [p \in Players |-> -1]]

\* history only: no step of StepSpec has been taken
NoStep == [kind |-> "none"]

FinishedIn(h) == {p \in Players : h[p] = {}}

\* the finished players in ascending order, as a finish order
RECURSIVE Ascending(_)
Ascending(S) ==
    IF S = {} THEN <<>>
    ELSE LET m == CHOOSE p \in S : \A q \in S : p <= q
         IN  <<m>> \o Ascending(S \ {m})

InitFrom(positions) ==
    /\ \E d \in positions :
        /\ rules = d.rules
        /\ hands = HandsOf(d)
        /\ last_player = d.last_player
        /\ is_revolution = d.is_revolution
    /\ field = EmptyField
    /\ current_player =
          SkipFinished([p \in Players |-> hands[p] = {}],
                       (last_player + 1) % NumPlayers, 0)
    /\ is_eleven_back = FALSE
    /\ is_joker_single = FALSE
    /\ consecutive_passes = 0
    /\ finished_count = Cardinality(FinishedIn(hands))
    /\ has_passed = [p \in Players |-> FALSE]
    /\ has_finished = [p \in Players |-> hands[p] = {}]
    /\ finish_order = Ascending(FinishedIn(hands))
    /\ pc = "loop"
    /\ game_code = "none"
    /\ discarded = Cardinality(FullDeck)
                   - Cardinality(UNION {hands[p] : p \in Players})
    /\ pass_run = 0
    /\ last_turn = NoTurn
    /\ pending = NoClear
    /\ io = <<>>

\* -------------------------------------------------------- the table codec
\* network/protocol.py: the table is 8 rows of 15 integers, 4 bytes each
TABLE_ROWS == 8
TABLE_COLS == 15
TABLE_BYTES == TABLE_ROWS * TABLE_COLS * 4

TableRows == 0..(TABLE_ROWS - 1)
TableCols == 0..(TABLE_COLS - 1)

\* A Python int, which has no width, written as a sign and two digits in
\* base 2^16: hi * 2^16 + lo, negated when neg.  lo is below the radix; hi
\* is not bounded, and hi >= 2^16 is a value of more than 32 bits.
Radix == 2 ^ 16

IntOf(hi, lo) == [neg |-> FALSE, hi |-> hi, lo |-> lo]
IntZero == IntOf(0, 0)

\* "value if value >= 0 else 0"
NonNegative(v) == IF v.neg THEN IntZero ELSE v

\* struct.pack("!I", value) raises struct.error outside 0..2^32-1
PackRaises(v) == v.neg \/ v.hi >= Radix

\* struct.pack("!I", value): four bytes, the most significant first
Pack(v) ==
    <<v.hi \div 256, v.hi % 256, v.lo \div 256, v.lo % 256>>

\* struct.unpack("!i", data)[0]: the four bytes read as a signed integer
UnpackSigned(b) ==
    LET hi == b[1] * 256 + b[2]
        lo == b[3] * 256 + b[4]
    IN  IF hi < Radix \div 2 THEN IntOf(hi, lo)
        ELSE IF lo = 0 THEN [IntOf(Radix - hi, 0) EXCEPT !.neg = TRUE]
        ELSE [IntOf(Radix - hi - 1, Radix - lo) EXCEPT !.neg = TRUE]

\* struct.unpack("!I", data)[0]: the four bytes read as an unsigned integer
Unpack(b) == IntOf(b[1] * 256 + b[2], b[3] * 256 + b[4])

\* TableArray(): all zeros
NewTable == [i \in TableRows |-> [j \in TableCols |-> IntZero]]

\* TableArray.to_bytes: cell [i][j] at offset (i * TABLE_COLS + j) * 4
ToBytes(data) ==
    [k \in 1..TABLE_BYTES |->
        LET cell == (k - 1) \div 4
            i == cell \div TABLE_COLS
            j == cell % TABLE_COLS
        IN  Pack(NonNegative(data[i][j]))[((k - 1) % 4) + 1]]

\* TableArray.from_bytes, for data of TABLE_BYTES bytes
FromBytes(bytes) ==
    [i \in TableRows |-> [j \in TableCols |->
        LET offset == (i * TABLE_COLS + j) * 4
        IN  Unpack(SubSeq(bytes, offset + 1, offset + 4))]]

\* TableArray.set_cards without the clearing of rows 0..4
SetCardsUncleared(data, cards) ==
    [i \in TableRows |-> [j \in TableCols |->
        IF i = JOKER_SUIT /\ j = 1 /\ Joker \in cards THEN IntOf(0, 2)
        ELSE IF i \in Suits /\ <<i, j>> \in cards THEN IntOf(0, 1)
        ELSE data[i][j]]]

\* TableArray.set_cards: rows 0..4 are cleared, then 2 at [4][1] for the
\* joker and 1 at [suit][rank] for every other card
SetCards(data, cards) ==
    [i \in TableRows |-> [j \in TableCols |->
        IF i = JOKER_SUIT /\ j = 1 /\ Joker \in cards THEN IntOf(0, 2)
        ELSE IF i \in Suits /\ <<i, j>> \in cards THEN IntOf(0, 1)
        ELSE IF i <= JOKER_SUIT THEN IntZero
        ELSE data[i][j]]]

\* TableArray.get_cards: a card for every cell of rows 0..3, columns 1..13
\* that is at least 1, and the joker when [4][1] is 2
GetCards(data) ==
    {c \in NormalCards : LET value == data[c[1]][c[2]]
                          IN  ~value.neg /\ (value.hi > 0 \/ value.lo >= 1)}
        \cup (IF data[JOKER_SUIT][1] = IntOf(0, 2) THEN {Joker} ELSE {})

\* the largest number of cells of a drawn table that are not zero
MaxCodecCells == 1

\* the values drawn: 1, 2, 255, 256, 2^16 - 1, 2^16, 2^31 - 1, 2^31,
\* 2^32 - 1, 2^32, and -1, -5, -2^31
CodecValues ==
    {IntOf(0, 1), IntOf(0, 2), IntOf(0, 255), IntOf(0, 256),
     IntOf(0, Radix - 1), IntOf(1, 0), IntOf(Radix \div 2 - 1, Radix - 1),
     IntOf(Radix \div 2, 0), IntOf(Radix - 1, Radix - 1), IntOf(Radix, 0),
     [IntOf(0, 1) EXCEPT !.neg = TRUE], [IntOf(0, 5) EXCEPT !.neg = TRUE],
     [IntOf(Radix \div 2, 0) EXCEPT !.neg = TRUE]}

\* no table in hand: nothing encoded, decoded, set or read
NoCodec ==
    [table |-> NewTable, raised |-> FALSE, bytes |-> <<>>, decoded |-> {},
     cards |-> {}, got |-> {}, sent |-> {}, word |-> <<>>, received |-> {}]

\* ------------------------------------------------------------ the server
\* The programs that connect; a peer is told apart from the player id it is
\* given.
Peers == 1..NumPlayers

\* GameServer.start (entered by "with GameServer(...) as server"): the
\* listening socket is open, no player yet, no event log yet, no result
GameServerStarted ==
    [socket |-> "listening", players |-> <<>>, open |-> {}, at |-> "accept",
     conn |-> {}, log |-> "none", result |-> {}]

\* the server while engine.run_games runs: five players, the event log
\* open, no table of the codec in hand
Serving ==
    /\ server = [socket |-> "listening", players |-> Ascending(Peers),
                 open |-> Peers, at |-> "run_games", conn |-> {},
                 log |-> "open", result |-> {}]
    /\ peers = [c \in Peers |-> "accepted"]
    /\ backlog = <<>>
    /\ codec = NoCodec

\* GameServer.close: the socket of every player of _players, then the
\* listening socket; _players is emptied
CloseKeepsListening(s) ==
    [s EXCEPT !.open = @ \ {s.players[i] : i \in 1..Len(s.players)},
              !.players = <<>>]

Close(s) ==
    [s EXCEPT !.open = @ \ {s.players[i] : i \in 1..Len(s.players)},
              !.socket = "closed",
              !.players = <<>>]

\* main: an exception leaves both with blocks (GameLogger.close for the
\* event log, when there is one, then GameServer.close) and is caught;
\* return 1
MainFails(s) ==
    [Close(s) EXCEPT !.log = IF @ = "open" THEN "closed" ELSE @,
                     !.at = "exited", !.result = {1}]

\* run_game called for a session of one game: game_number is 1 and
\* _total_games, when run_games has not set it, reads as 1
OneGame ==
    /\ game_number = 1
    /\ total_games = 1
    /\ points = [p \in Players |-> 0]
    /\ player_rank = [p \in Players |-> HEIMIN]
    /\ Serving
    /\ step = NoStep

Init == InitFrom(Positions) /\ OneGame

\* ------------------------------------------------------------ the actions
Install(g, out) ==
    /\ hands' = g.hands
    /\ field' = g.field
    /\ current_player' = g.current_player
    /\ last_player' = g.last_player
    /\ is_revolution' = g.is_revolution
    /\ is_eleven_back' = g.is_eleven_back
    /\ is_joker_single' = g.is_joker_single
    /\ consecutive_passes' = g.consecutive_passes
    /\ finished_count' = g.finished_count
    /\ has_passed' = g.has_passed
    /\ has_finished' = g.has_finished
    /\ finish_order' = g.finish_order
    /\ pc' = IF out THEN "done" ELSE "loop"

\* run_game, the two "continue" branches at the top of the loop
\* the loop skipping the finished players only
MustSkipFinishedOnly == has_finished[current_player]

MustSkip ==
    \/ has_finished[current_player]
    \/ has_passed[current_player] /\ ~FieldIsEmpty(field)

\* One iteration that requests no move: the current player is skipped.
SkipTurn ==
    /\ pc = "loop"
    /\ finished_count < 4
    /\ MustSkip
    /\ Install(AdvancePlayer(EngineState), FALSE)
    /\ UNCHANGED <<server, peers, backlog, codec, rules, game_number, total_games, points, player_rank,
                   game_code, discarded, pass_run, last_turn, pending, io,
                   step>>

\* GameEngine._send_all_hand_info: one hand table per player, in the order
\* of self.players
SendAllHandInfo == [i \in 1..NumPlayers |-> <<"hand", i - 1>>]

\* GameEngine._send_all_field_info
SendAllFieldInfo == [i \in 1..NumPlayers |-> <<"field", i - 1>>]

\* GameEngine._get_player_move: one table read from the player
RecvTable(p) == <<"read", p>>

\* GameServer.send_accept / send_reject
SendResponse(p, code) == <<"response", p, code>>

\* "for p in self.players: self.server.send_game_end / send_game_continue"
SendGameState(code) == [i \in 1..NumPlayers |-> <<"state", i - 1, code>>]

\* send_game_end that never reports the end of the session
GameEndCodeNeverAll(number, total) ==
    GAME_END

\* GameServer.send_game_end with all_done of run_game
GameEndCode(number, total) ==
    IF number = total THEN ALL_GAMES_END ELSE GAME_END

\* the frames of an iteration with the game end code sent again after the
\* loop whenever the game has ended
TurnFramesEndTwice(current, accepted, four_finished, game_ended, sennichite) ==
    LET end_code == GameEndCode(game_number, total_games)
    IN  SendAllHandInfo
        \o <<RecvTable(current)>>
        \o <<SendResponse(current, IF accepted THEN ACCEPT ELSE REJECT)>>
        \o SendAllFieldInfo
        \o (IF four_finished THEN SendGameState(end_code) ELSE <<>>)
        \o (IF ~game_ended THEN SendGameState(GAME_CONTINUE) ELSE <<>>)
        \o (IF game_ended THEN SendGameState(end_code) ELSE <<>>)

\* The frames of one iteration that requests a move, in the order of the
\* statements of run_game; the last line is the code after the loop.
TurnFrames(current, accepted, four_finished, game_ended, sennichite) ==
    LET end_code == GameEndCode(game_number, total_games)
    IN  SendAllHandInfo
        \o <<RecvTable(current)>>
        \o <<SendResponse(current, IF accepted THEN ACCEPT ELSE REJECT)>>
        \o SendAllFieldInfo
        \o (IF four_finished THEN SendGameState(end_code) ELSE <<>>)
        \o (IF ~game_ended THEN SendGameState(GAME_CONTINUE) ELSE <<>>)
        \o (IF game_ended /\ sennichite THEN SendGameState(end_code)
            ELSE <<>>)

\* The rest of an iteration that requested a move, from "Send field info"
\* on: g1 is the state after the play or pass of player current; when the
\* game ends the code after the loop runs too.
EndOfTurn(g1, current, note) ==
    LET all_passed == CheckAllPassed(g1)
        g2 == IF all_passed THEN ClearField(g1) ELSE g1
        sennichite == g2.consecutive_passes >= SENNICHITE_THRESHOLD
        remaining == {p \in Players :
                        \A i \in DOMAIN g2.finish_order : g2.finish_order[i] # p}
        game_ended == sennichite \/ g2.finished_count >= 4
        cleared == IF all_passed
                   THEN [kind |-> "all_passed", leader |-> g1.last_player,
                         live |-> g1.last_player >= 0
                                  /\ ~g1.has_finished[g1.last_player]]
                   ELSE IF note.eight_stop
                   THEN [kind |-> "eight_stop", leader |-> current,
                         live |-> ~g1.has_finished[current]]
                   ELSE NoClear
    IN  /\ \E shuffled \in IF sennichite THEN Shuffles(remaining) ELSE {<<>>} :
            LET g3 == IF sennichite THEN ResolveSennichite(g2, shuffled)
                      ELSE g2
            IN  IF game_ended
                THEN Install(HandleLastPlayer(g3), TRUE)
                ELSE Install(AdvancePlayer(g3), FALSE)
        /\ game_code' = IF game_ended THEN "end" ELSE "continue"
        /\ discarded' = Saturate(discarded + Cardinality(field.cards)
                                  + note.put - Cardinality(g2.field.cards))
        /\ pass_run' = IF note.accepted THEN 0
                       ELSE IF pass_run < SENNICHITE_THRESHOLD
                       THEN pass_run + 1 ELSE pass_run
        /\ pending' = IF game_ended THEN NoClear ELSE cleared
        /\ last_turn' =
             [note EXCEPT
                !.asked = current,
                !.finished = has_finished[current],
                !.passed_on_field = has_passed[current]
                                    /\ ~FieldIsEmpty(field),
                !.after = pending,
                !.new_ranks = IF game_ended THEN LogGameEnd(player_rank)
                              ELSE note.new_ranks,
                !.all_passed = all_passed,
                !.on_field = /\ all_passed
                             /\ ~note.accepted
                             /\ ~FieldIsEmpty(g1.field),
                !.unasked = IF all_passed
                            THEN {p \in Players : /\ ~g1.has_finished[p]
                                                  /\ p # g1.last_player
                                                  /\ ~g1.has_passed[p]}
                            ELSE {}]
        /\ io' = TurnFrames(current, note.accepted, g2.finished_count >= 4,
                            game_ended, sennichite)
        /\ UNCHANGED <<server, peers, backlog, codec, rules, game_number, total_games, points, player_rank>>

\* run_game, "Analyze and validate" for the table t of the current player
Verdict(t) ==
    LET sub == GetSubmittedCards(t)
        revolution == EffectiveRevolution(is_revolution, is_eleven_back)
    IN  Validate(Analyze(sub.cards, sub.joker_positions, revolution),
                 hands[current_player], sub.cards, field, revolution,
                 is_joker_single, sub.joker_positions)

\* the tables a client may answer a move request with
Submissions == Tables(Cells)

\* history only: what an accepted play of cards by player current did, g1
\* being the state after it
PlayNote(current, cards, joker_positions, a, revolution, g1) ==
    [NoTurn EXCEPT
       !.accepted = TRUE,
       !.eight_stop = IsEightStop(a, rules, revolution),
       !.not_owned =
           \/ \E c \in cards \ ({Joker} \cup joker_positions) :
                 c \notin hands[current]
           \/ /\ Joker \in cards \/ joker_positions # {}
              /\ Joker \notin hands[current],
       !.jokers = Cardinality(joker_positions)
                  + (IF Joker \in cards THEN 1 ELSE 0),
       !.put = Cardinality(cards),
       !.took = Cardinality(hands[current])
                - Cardinality(g1.hands[current])]

\* One iteration that requests a move and accepts the table t as a play.
TurnPlay ==
    /\ pc = "loop"
    /\ finished_count < 4
    /\ ~MustSkip
    /\ \E t \in Submissions :
        /\ Verdict(t) = "accept"
        /\ LET current == current_player
               sub == GetSubmittedCards(t)
               cards == sub.cards
               joker_positions == sub.joker_positions
               revolution == EffectiveRevolution(is_revolution, is_eleven_back)
               a == Analyze(cards, joker_positions, revolution)
               g1 == CheckFinish(
                        ProcessValidMove(EngineState, current, cards, a,
                                         joker_positions, rules),
                        current)
           IN  EndOfTurn(g1, current,
                         PlayNote(current, cards, joker_positions, a,
                                  revolution, g1))
    /\ UNCHANGED step

\* One iteration that requests a move and gets a table that is a pass or
\* is rejected: both take the pass branch.
TurnPass ==
    /\ pc = "loop"
    /\ finished_count < 4
    /\ ~MustSkip
    /\ ~(\A t \in Submissions : Verdict(t) = "accept")
    /\ EndOfTurn(PassMove(EngineState, current_player), current_player, NoTurn)
    /\ UNCHANGED step

Next == TurnPlay \/ TurnPass \/ SkipTurn

Spec == Init /\ [][Next]_vars

\* The endgame of three under fairness.  The engine's single thread runs on
\* and every client answers its move request, so the loop never stalls: at
\* every iteration it either skips a seat (lines 159-166) or receives an
\* answer.  A pass (or a rejected table, which the engine treats as a pass)
\* is an answer every client can always give, so one of the two steps below
\* is enabled at every iteration and weak fairness on them says exactly that
\* the loop keeps iterating.  Behaviours that answer with plays are not
\* excluded: plays are steps of Next and are taken freely in between.
FairInit == InitFrom({EndgameOfThree}) /\ OneGame

FairSpec ==
    /\ FairInit
    /\ [][Next]_vars
    /\ WF_vars(TurnPass \/ SkipTurn)

\* ------------------------------------------------------------ the session
\* the largest number of games of a session
MaxGames == 2

\* run_games, "Award points", with 4 points for the first place
RECURSIVE AwardFourDown(_, _, _)
AwardFourDown(pts, order, i) ==
    IF i > Len(order) THEN pts
    ELSE AwardFourDown([pts EXCEPT ![order[i]] = @ + 4 - (i - 1)], order, i + 1)

\* run_games, "Award points": 5 - rank for the player at index rank of
\* finish_order, from position i on
RECURSIVE Award(_, _, _)
Award(pts, order, i) ==
    IF i > Len(order) THEN pts
    ELSE Award([pts EXCEPT ![order[i]] = @ + 5 - (i - 1)], order, i + 1)

\* run_games, "Update player ranks for next game", with the classes handed
\* out from the last place up
RECURSIVE UpdateRanksReversed(_, _, _)
UpdateRanksReversed(rnk, order, i) ==
    IF i > Len(order) THEN rnk
    ELSE UpdateRanksReversed([rnk EXCEPT ![order[i]] = NumPlayers - i],
                             order, i + 1)

\* run_games, "Update player ranks for next game": PlayerRank(rank) for the
\* player at index rank of finish_order, from position i on
RECURSIVE UpdateRanks(_, _, _)
UpdateRanks(rnk, order, i) ==
    IF i > Len(order) THEN rnk
    ELSE UpdateRanks([rnk EXCEPT ![order[i]] = i - 1], order, i + 1)

\* finish orders of the games before the one the model starts in
FinishOrders ==
    {[i \in 1..NumPlayers |-> (first + i - 1) % NumPlayers] : first \in Players}

\* what run_games holds after k games that ended in orders of FinishOrders
RECURSIVE AfterGames(_)
AfterGames(k) ==
    IF k = 0
    THEN {[points |-> [p \in Players |-> 0],
           player_rank |-> [p \in Players |-> HEIMIN],
           order |-> <<>>]}
    ELSE {[points |-> Award(s.points, o, 1),
           player_rank |-> UpdateRanks(s.player_rank, o, 1),
           order |-> o] : s \in AfterGames(k - 1), o \in FinishOrders}

\* GameEngine.run_games after run_game has returned: the for loop calls
\* run_game for the next game ("next_game": that game's frames follow) or,
\* after the last game, returns ("returned": nothing more is sent).
RunGames ==
    /\ pc = "done"
    /\ pc' = IF game_number < total_games THEN "next_game" ELSE "returned"
    /\ game_number' = IF game_number < total_games THEN game_number + 1
                      ELSE game_number
    /\ points' = Award(points, finish_order, 1)
    /\ player_rank' = UpdateRanks(player_rank, finish_order, 1)
    /\ UNCHANGED <<server, peers, backlog, codec, rules, hands, field, current_player, last_player,
                   is_revolution, is_eleven_back, is_joker_single,
                   consecutive_passes, finished_count, has_passed,
                   has_finished, finish_order, total_games, game_code,
                   discarded, pass_run, last_turn, pending, io, step>>

\* the endgame of three in any game of a session of up to MaxGames games
InGame ==
    /\ InitFrom({EndgameOfThree})
    /\ total_games \in 1..MaxGames
    /\ game_number \in 1..total_games
    /\ \E s \in AfterGames(game_number - 1) :
        /\ points = s.points
        /\ player_rank = s.player_rank
    /\ Serving
    /\ step = NoStep


\* --------------------------------------------------------------- one step
\* One turn taken from a state in the middle of a trick, with submissions
\* of every type: singles, groups and ladders, with and without the joker.

\* the cells the submissions of the single turn occupy: the four 3s, the 4
\* of spades and of hearts, and the spades up to the 7
StepCells ==
    {<<SPADE, 1>>, <<HEART, 1>>, <<DIAMOND, 1>>, <<CLUB, 1>>,
     <<SPADE, 2>>, <<HEART, 2>>, <<SPADE, 3>>, <<SPADE, 4>>, <<SPADE, 5>>}

Run(suit, lo, hi) == {<<suit, r>> : r \in lo..hi}

\* four more cards player 0 holds, the 8 to the jack of diamonds, played
\* together or as the ladder 8-9-10
StepHeld == Run(DIAMOND, RANK_EIGHT, RANK_ELEVEN)

\* plays of more than MaxCells cards: groups of three and four, ladders of
\* three to five, and two sets that are neither
StepPlays ==
    {{<<SPADE, 1>>, <<HEART, 1>>, <<DIAMOND, 1>>},
     {<<HEART, 1>>, <<DIAMOND, 1>>, <<CLUB, 1>>},
     {<<SPADE, 1>>, <<HEART, 1>>, <<DIAMOND, 1>>, <<CLUB, 1>>},
     Run(SPADE, 1, 3), Run(SPADE, 2, 4), Run(SPADE, 3, 5),
     Run(SPADE, 1, 4), Run(SPADE, 2, 5), Run(SPADE, 1, 5), StepHeld,
     Run(DIAMOND, RANK_EIGHT, RANK_EIGHT + 2),
     {<<SPADE, 1>>, <<SPADE, 2>>, <<HEART, 2>>},
     {<<SPADE, 1>>, <<SPADE, 3>>, <<SPADE, 5>>}}

\* the tables of the single turn: every table of up to MaxCells cells, the
\* larger plays with no cell or one cell marked as the joker, the 8 of
\* diamonds alone and paired with the joker as the 8 of spades
StepTables ==
    Tables(StepCells) \cup
    {[ones |-> S \ w, twos |-> w, alone |-> FALSE] :
        S \in StepPlays, w \in {{}} \cup {{c} : c \in StepCells}} \cup
    {[ones |-> {<<DIAMOND, RANK_EIGHT>>}, twos |-> w, alone |-> FALSE] :
        w \in {{}, {<<SPADE, RANK_EIGHT>>}}}

\* what heads the trick when the turn is taken; no lead holds an 8, which
\* would have cleared the field
StepLeads ==
    {{<<SPADE, 1>>}, {<<HEART, 1>>}, {<<SPADE, 3>>}, {Joker},
     {<<SPADE, 1>>, <<HEART, 1>>}, {<<SPADE, 2>>, <<HEART, 2>>},
     {<<SPADE, 1>>, <<HEART, 1>>, <<DIAMOND, 1>>},
     Run(SPADE, 1, 3), Run(SPADE, 2, 4), Run(SPADE, 1, 4),
     {<<suit, 7>> : suit \in Suits}, {<<suit, 7>> : suit \in SPADE..DIAMOND},
     {<<CLUB, 7>>}, {<<HEART, 7>>, <<CLUB, 7>>},
     Run(CLUB, 7, 9), Run(CLUB, 7, 10), Run(CLUB, 7, 11)}

\* the field _process_valid_move and _update_lock leave when lead is played
\* under the given order: unlocked as the first play of the trick, locked
\* as a later one
FieldOf(lead, revolution, locked) ==
    LET a == Analyze(lead, {}, revolution)
    IN  [cards |-> lead, card_type |-> a.card_type, card_count |-> a.count,
         base_rank |-> a.base_rank, suit_pattern |-> a.suit_pattern,
         is_locked |-> locked, lock_count |-> IF locked THEN 2 ELSE 1]

\* _apply_special_rules: whether the play toggles the order in force, by a
\* revolution or by an 11-back but not by both
LeadToggles(lead, back) ==
    LET a == Analyze(lead, {}, FALSE)
        is_revolution_play ==
            \/ a.card_type = "pair" /\ a.count >= 4
            \/ a.card_type = "sequence" /\ a.count >= 5
    IN  (DefaultRules.revolution /\ is_revolution_play)
            # (back /\ CheckSpecialCard(a, RANK_ELEVEN, FALSE))

\* Player 4 has played lead and player 0 is asked.  Player 0 holds the joker
\* and every cell that is not on the field, the others a card each; the
\* players between 4 and 0 in the trick have passed (others_passed) or the
\* trick is young.  The field keeps the analysis made in the order that was
\* in force when the lead was played, before the lead itself toggled it.
MidTrick ==
    \E lead \in StepLeads, rev \in BOOLEAN, back \in BOOLEAN,
       locked \in BOOLEAN, others_passed \in BOOLEAN :
        /\ rules = [DefaultRules EXCEPT !.eleven_back = back]
        /\ hands = [p \in Players |->
                      IF p = 0
                      THEN (StepCells \cup StepHeld \cup {Joker}) \ lead
                      ELSE {<<HEART, 9 + p>>}]
        /\ field = FieldOf(lead, (rev # back) # LeadToggles(lead, back),
                           locked)
        /\ current_player = 0
        /\ last_player = 4
        /\ is_revolution = rev
        /\ is_eleven_back = back
        /\ is_joker_single = (lead = {Joker})
        /\ consecutive_passes = 0
        /\ finished_count = 0
        /\ has_passed = [p \in Players |-> others_passed /\ p \in 1..3]
        /\ has_finished = [p \in Players |-> FALSE]
        /\ finish_order = <<>>
        /\ pc = "loop"
        /\ game_code = "continue"
        /\ discarded = Cardinality(FullDeck) - Cardinality(lead)
                       - Cardinality(UNION {hands[p] : p \in Players})
        /\ pass_run = 0
        /\ last_turn = NoTurn
        /\ pending = NoClear
        /\ io = <<>>
        /\ OneGame

\* GameState.from_table and _parse_field of the reference client, for the
\* table run_game_loop hands them: own_cards_buf, the hand table received
\* by receive_cards, whose rows 0..3 hold the cards of the hand as 1 and
\* whose cell [4][1] is 2 for the joker
FromTable(own_cards_buf) ==
    LET cells == own_cards_buf \ {Joker}
        card_count == Cardinality(cells)
                      + (IF Joker \in own_cards_buf THEN 1 ELSE 0)
        ranks_found == {c[2] : c \in cells}
        is_consecutive ==
            MaxRank(cells) - MinRank(cells) + 1 = Cardinality(ranks_found)
        sequence == /\ card_count > 0
                    /\ Cardinality(ranks_found) >= 2
                    /\ is_consecutive
                    /\ card_count = Cardinality(ranks_found)
    IN  [qty |-> card_count,
         sequence |-> sequence,
         ord |-> IF card_count = 0 THEN 0
                 ELSE IF ranks_found = {} THEN 14
                 ELSE IF sequence THEN MaxRank(cells)
                 ELSE MinRank(cells),
         suit |-> {c[1] : c \in cells},
         joker |-> Joker \in own_cards_buf]

\* One iteration of run_game's loop for the table t, whatever the verdict;
\* the submission, its analysis and the verdict are kept in step, with the
\* state a reference client parses from the hand table of the request.
StepTurn ==
    /\ step = NoStep
    /\ pc = "loop"
    /\ finished_count < 4
    /\ ~MustSkip
    /\ \E t \in StepTables :
        LET current == current_player
            sub == GetSubmittedCards(t)
            cards == sub.cards
            joker_positions == sub.joker_positions
            revolution == EffectiveRevolution(is_revolution, is_eleven_back)
            a == Analyze(cards, joker_positions, revolution)
            verdict == Verdict(t)
            g1 == CheckFinish(
                     ProcessValidMove(EngineState, current, cards, a,
                                      joker_positions, rules),
                     current)
        IN  /\ IF verdict = "accept"
               THEN EndOfTurn(g1, current,
                              PlayNote(current, cards, joker_positions, a,
                                       revolution, g1))
               ELSE EndOfTurn(PassMove(EngineState, current), current,
                              NoTurn)
            /\ step' = [kind |-> "turn", cards |-> cards,
                        joker_positions |-> joker_positions,
                        analysis |-> a, verdict |-> verdict,
                        state |-> FromTable(hands[current])]

\* the largest stride of the shuffles drawn
MaxStride == 2

\* create_full_deck().to_list(): the deck sorted by suit and rank, the joker
\* last
CreateFullDeck ==
    [i \in 1..Cardinality(FullDeck) |->
        IF i = Cardinality(FullDeck) THEN Joker
        ELSE <<SPADE + ((i - 1) \div Cardinality(Ranks)),
               RANK_THREE + ((i - 1) % Cardinality(Ranks))>>]

\* random.shuffle(cards), for the outcome that puts the card of position
\* stride * i + shift (modulo the length, counted from 0) at position i; a
\* permutation for every stride below the length, which is prime
Shuffle(cards, stride, shift) ==
    [i \in 1..Len(cards) |->
        cards[((stride * (i - 1) + shift) % Len(cards)) + 1]]

\* _deal_cards that leaves the last card of the deck undealt
DealCardsButLast(cards, initial_seat) ==
    [p \in Players |->
        {cards[i + 1] : i \in {j \in 0..(Len(cards) - 2) :
                                  (j + initial_seat) % NumPlayers = p}}]

\* _deal_cards, the round-robin: card i goes to seat (i + initial_seat)
\* modulo the number of players, and seat_order is the identity
DealCards(cards, initial_seat) ==
    [p \in Players |->
        {cards[i + 1] : i \in {j \in 0..(Len(cards) - 1) :
                                  (j + initial_seat) % NumPlayers = p}}]

\* "for player in self.players: if player.rank == PlayerRank.DAIFUGO": the
\* first such player, -1 when there is none
Daifugo(rnk) ==
    IF \E p \in Players : rnk[p] = DAIFUGO
    THEN CHOOSE p \in Players :
            /\ rnk[p] = DAIFUGO
            /\ \A q \in Players : rnk[q] = DAIFUGO => p <= q
    ELSE -1

\* _deal_cards, the player the deal starts from: drawn is the outcome of
\* random.randint
InitialPlayer(number, rnk, drawn) ==
    IF number = 1 THEN drawn
    ELSE IF Daifugo(rnk) < 0 THEN 0 ELSE Daifugo(rnk)

\* _init_game: reset_for_new_game, the players' reset, the deal and the
\* first player
InitGame ==
    /\ pc \in {"init_game", "next_game"}
    /\ \E stride \in 1..MaxStride, shift \in 0..(Cardinality(FullDeck) - 1),
          drawn \in Players :
        LET cards == Shuffle(CreateFullDeck, stride, shift)
            initial_player == InitialPlayer(game_number, player_rank, drawn)
        IN  /\ hands' = DealCards(cards, initial_player)
            /\ step' = [kind |-> "init_game", cards |-> cards,
                        initial_player |-> initial_player]
    /\ field' = EmptyField
    /\ current_player' = IF game_number = 1 \/ Daifugo(player_rank) < 0
                          THEN 0 ELSE Daifugo(player_rank)
    /\ last_player' = -1
    /\ is_revolution' = FALSE
    /\ is_eleven_back' = FALSE
    /\ is_joker_single' = FALSE
    /\ consecutive_passes' = 0
    /\ finished_count' = 0
    /\ has_passed' = [p \in Players |-> FALSE]
    /\ has_finished' = [p \in Players |-> FALSE]
    /\ pc' = "dealt"
    /\ discarded' = 0
    /\ pass_run' = 0
    /\ last_turn' = NoTurn
    /\ pending' = NoClear
    /\ io' = <<>>
    /\ UNCHANGED <<server, peers, backlog, codec, rules, finish_order, game_number, total_games, points,
                   player_rank, game_code>>

\* run_game is entered: for the first game with the state as constructed,
\* for a later one with the state the game before left, its order of
\* finish, its hands run out and its revolution on or off
BeforeGame ==
    /\ total_games = MaxGames
    /\ game_number \in 1..total_games
    /\ \E s \in AfterGames(game_number - 1), rev \in BOOLEAN :
        /\ finish_order = s.order
        /\ points = s.points
        /\ player_rank = s.player_rank
        /\ is_revolution = (rev /\ game_number > 1)
        /\ last_player = IF game_number = 1 THEN -1 ELSE s.order[1]
    /\ \E exchange \in BOOLEAN :
        rules = [DefaultRules EXCEPT !.card_exchange = exchange]
    /\ Serving
    /\ hands = [p \in Players |-> {}]
    /\ field = EmptyField
    /\ current_player = 0
    /\ is_eleven_back = FALSE
    /\ is_joker_single = FALSE
    /\ consecutive_passes = 0
    /\ finished_count = IF game_number = 1 THEN 0 ELSE NumPlayers
    /\ has_passed = [p \in Players |-> FALSE]
    /\ has_finished = [p \in Players |-> game_number > 1]
    /\ pc = "init_game"
    /\ game_code = IF game_number = 1 THEN "none" ELSE "end"
    /\ discarded = Cardinality(FullDeck)
    /\ pass_run = 0
    /\ last_turn = NoTurn
    /\ pending = NoClear
    /\ io = <<>>
    /\ step = NoStep

\* ---------------------------------------------------- the card exchange
\* Card.strength() of the joker
JOKER_STRENGTH == 100

\* Card.strength() with revolution left at its default, False
Strength(c) == IF c = Joker THEN JOKER_STRENGTH ELSE c[2]

\* Card.strength(revolution=True)
StrengthInRevolution(c) == IF c = Joker THEN JOKER_STRENGTH ELSE 14 - c[2]

\* c comes before d in CardSet.to_list(): by suit, then by rank
ListedBefore(c, d) == c[1] < d[1] \/ (c[1] = d[1] /\ c[2] < d[2])

\* _extract_strongest with the strength of a revolution
RECURSIVE ExtractStrongestInRevolution(_, _)
ExtractStrongestInRevolution(hand, count) ==
    IF count = 0 \/ hand = {} THEN {}
    ELSE LET c == CHOOSE c \in hand : \A d \in hand \ {c} :
                    \/ StrengthInRevolution(c) > StrengthInRevolution(d)
                    \/ /\ StrengthInRevolution(c) = StrengthInRevolution(d)
                       /\ ListedBefore(c, d)
         IN  {c} \cup ExtractStrongestInRevolution(hand \ {c}, count - 1)

\* _extract_strongest: the first count cards of the hand sorted by
\* strength, strongest first; the sort is stable, so cards of one strength
\* keep the order of to_list
RECURSIVE ExtractStrongest(_, _)
ExtractStrongest(hand, count) ==
    IF count = 0 \/ hand = {} THEN {}
    ELSE LET c == CHOOSE c \in hand : \A d \in hand \ {c} :
                    \/ Strength(c) > Strength(d)
                    \/ Strength(c) = Strength(d) /\ ListedBefore(c, d)
         IN  {c} \cup ExtractStrongest(hand \ {c}, count - 1)

\* "Auto-select weakest cards": the first count cards of the hand sorted by
\* strength, weakest first
RECURSIVE Weakest(_, _)
Weakest(hand, count) ==
    IF count = 0 \/ hand = {} THEN {}
    ELSE LET c == CHOOSE c \in hand : \A d \in hand \ {c} :
                    \/ Strength(c) < Strength(d)
                    \/ Strength(c) = Strength(d) /\ ListedBefore(c, d)
         IN  {c} \cup Weakest(hand \ {c}, count - 1)

\* players_by_rank[r]: the dict is filled in the order of self.players, so
\* the last player of rank r stays; -1 when r is not a key
PlayersByRank(rnk, r) ==
    IF \E p \in Players : rnk[p] = r
    THEN CHOOSE p \in Players :
            /\ rnk[p] = r
            /\ \A q \in Players : rnk[q] = r => q <= p
    ELSE -1

\* the cards moved from the hand of player from to the hand of player to
Transfer(h, from, to, cards) ==
    [h EXCEPT ![from] = h[from] \ cards, ![to] = h[to] \cup cards]

\* _send_initial_hands, the order of the tables sent: by rank in an
\* exchange game, by player id otherwise
\* _send_initial_hands, "Calculate exchange count based on rank"
ExchangeCountOf(rank, is_exchange_game) ==
    IF ~is_exchange_game THEN 0
    ELSE IF rank = DAIFUGO THEN 2
    ELSE IF rank = FUGO THEN 1
    ELSE IF rank = HINMIN THEN -1
    ELSE IF rank = DAIHINMIN THEN -2
    ELSE 0

\* TableArray.set_game_state, cell [5][1] of the initial hand table: the
\* exchange count, 101 for -1 and 102 for -2
ChangeQtyCell(exchange_count) ==
    IF exchange_count < 0 THEN 100 - exchange_count ELSE exchange_count

\* run_game_loop of a client that answers every positive change_qty
SendsChangingCardsAbove100(own_cards_buf_5_1) == 0 < own_cards_buf_5_1

\* run_game_loop of the reference client, "Card exchange phase": whether
\* send_changing_cards is called for the cell [5][1] received
SendsChangingCards(own_cards_buf_5_1) ==
    0 < own_cards_buf_5_1 /\ own_cards_buf_5_1 < 100

InitialHandFrames(rnk, is_exchange_game) ==
    IF is_exchange_game
    THEN LET by_rank == [i \in 1..NumPlayers |->
                            PlayersByRank(rnk, DAIFUGO + i - 1)]
         IN  SelectSeq([i \in 1..NumPlayers |-> <<"hand", by_rank[i]>>],
                       LAMBDA f : f[2] >= 0)
    ELSE SendAllHandInfo

\* GameEngine._send_initial_hands: in a game with exchange the strongest
\* cards of the Daihinmin and of the Hinmin are moved first, then every
\* player is sent a hand
SendInitialHands ==
    /\ pc = "dealt"
    /\ LET is_exchange_game == rules.card_exchange /\ game_number > 1
           daifugo == PlayersByRank(player_rank, DAIFUGO)
           fugo == PlayersByRank(player_rank, FUGO)
           hinmin == PlayersByRank(player_rank, HINMIN)
           daihinmin == PlayersByRank(player_rank, DAIHINMIN)
           h1 == IF is_exchange_game /\ daihinmin >= 0
                 THEN Transfer(hands, daihinmin, daifugo,
                               ExtractStrongest(hands[daihinmin], 2))
                 ELSE hands
           h2 == IF is_exchange_game /\ hinmin >= 0
                 THEN Transfer(h1, hinmin, fugo,
                               ExtractStrongest(h1[hinmin], 1))
                 ELSE h1
       IN  /\ hands' = h2
           /\ io' = InitialHandFrames(player_rank, is_exchange_game)
           /\ pc' = IF is_exchange_game THEN "exchange" ELSE "loop"
    /\ step' = [kind |-> "initial_hands",
                dealt |-> [p \in Players |-> Cardinality(hands[p])],
                senders |->
                    {p \in Players :
                        SendsChangingCards(ChangeQtyCell(ExchangeCountOf(
                            player_rank[p],
                            rules.card_exchange /\ game_number > 1)))},
                read |-> {}]
    /\ UNCHANGED <<server, peers, backlog, codec, rules, field, current_player, last_player, is_revolution,
                   is_eleven_back, is_joker_single, consecutive_passes,
                   finished_count, has_passed, has_finished, finish_order,
                   game_number, total_games, points, player_rank, game_code,
                   discarded, pass_run, last_turn, pending>>

\* _get_exchange_cards_from_high without the test that the cards are held
GetExchangeCardsUnheld(hand, t, count) ==
    LET cards == GetSubmittedCards(t).cards
    IN  IF Cardinality(cards) # count THEN Weakest(hand, count) ELSE cards

\* _get_exchange_cards_from_high without the test of the count
GetExchangeCardsAnyCount(hand, t, count) ==
    LET cards == GetSubmittedCards(t).cards
    IN  IF \E c \in cards : c \notin hand THEN Weakest(hand, count)
        ELSE cards

\* GameEngine._get_exchange_cards_from_high for the table t received
GetExchangeCardsFromHigh(hand, t, count) ==
    LET cards == GetSubmittedCards(t).cards
        counted == IF Cardinality(cards) # count THEN Weakest(hand, count)
                   ELSE cards
    IN  IF \E c \in counted : c \notin hand THEN Weakest(hand, count)
        ELSE counted

\* the cells of the exchange tables of a giver: the count + 1 weakest cards
\* and the strongest card of the hand, and the weakest card not in it
ExchangeCells(hand, count) ==
    (Weakest(hand, count + 1) \cup ExtractStrongest(hand, 1)
     \cup Weakest(NormalCards \ hand, 1)) \ {Joker}

\* the tables a giver may answer with: up to count + 1 of these cells set
\* to 1, with or without a 2 in a cell that names no rank
ExchangeTables(hand, count) ==
    {[ones |-> S, twos |-> {}, alone |-> b] :
        S \in {S \in SUBSET ExchangeCells(hand, count) :
                  Cardinality(S) <= count + 1},
        b \in BOOLEAN}

\* _do_card_exchange, one of its two exchanges: count cards go from the
\* player of rank high to the player of rank low, when both ranks are held
Exchange(high, low, count, then) ==
    LET giver == PlayersByRank(player_rank, high)
        taker == PlayersByRank(player_rank, low)
    IN  /\ IF giver >= 0 /\ taker >= 0
           THEN \E t \in ExchangeTables(hands[giver], count) :
                  LET cards == GetExchangeCardsFromHigh(hands[giver], t, count)
                  IN  /\ hands' = Transfer(hands, giver, taker, cards)
                      /\ io' = <<RecvTable(giver)>>
                      /\ step' = [kind |-> "exchange", giver |-> giver,
                                  taker |-> taker, count |-> count,
                                  selection |-> GetSubmittedCards(t).cards,
                                  dealt |-> step.dealt,
                                  senders |-> step.senders,
                                  read |-> step.read \cup {giver}]
           ELSE /\ hands' = hands
                /\ io' = <<>>
                /\ step' = [kind |-> "no_exchange", dealt |-> step.dealt,
                            senders |-> step.senders, read |-> step.read]
        /\ pc' = then
        /\ UNCHANGED <<server, peers, backlog, codec, rules, field, current_player, last_player,
                       is_revolution, is_eleven_back, is_joker_single,
                       consecutive_passes, finished_count, has_passed,
                       has_finished, finish_order, game_number, total_games,
                       points, player_rank, game_code, discarded, pass_run,
                       last_turn, pending>>

\* _do_card_exchange, "Exchange 1": two cards from Daifugo to Daihinmin
ExchangeFromDaifugo ==
    /\ pc = "exchange"
    /\ Exchange(DAIFUGO, DAIHINMIN, 2, "exchange_fugo")

\* _do_card_exchange, "Exchange 2": one card from Fugo to Hinmin
ExchangeFromFugo ==
    /\ pc = "exchange_fugo"
    /\ Exchange(FUGO, HINMIN, 1, "loop")

StepInit == MidTrick \/ BeforeGame

StepNext ==
    \/ StepTurn
    \/ InitGame
    \/ SendInitialHands
    \/ ExchangeFromDaifugo
    \/ ExchangeFromFugo

StepSpec == StepInit /\ [][StepNext]_vars

\* A session of up to MaxGames games, seen on entry to run_game and in the
\* endgame of three of any of its games; after the last iteration of a game
\* run_games awards the points and the ranks and run_game initialises the
\* next game.
SessionInit == InGame \/ BeforeGame

SessionNext == Next \/ RunGames \/ InitGame

SessionSpec == SessionInit /\ [][SessionNext]_vars

\* ------------------------------------------------- accepting the players
\* main() has entered "with GameServer(...)" and calls accept_players; no
\* engine exists yet.  io lists what accept_players has done so far.
ServerListening ==
    /\ server = GameServerStarted
    /\ peers = [c \in Peers |-> "idle"]
    /\ backlog = <<>>
    /\ pc = "accepting"
    /\ io = <<>>
    /\ rules = DefaultRules
    /\ game_number = 1
    /\ total_games = MaxGames
    /\ points = [p \in Players |-> 0]
    /\ player_rank = [p \in Players |-> HEIMIN]
    /\ hands = [p \in Players |-> {}]
    /\ field = EmptyField
    /\ current_player = 0
    /\ last_player = -1
    /\ is_revolution = FALSE
    /\ is_eleven_back = FALSE
    /\ is_joker_single = FALSE
    /\ consecutive_passes = 0
    /\ finished_count = 0
    /\ has_passed = [p \in Players |-> FALSE]
    /\ has_finished = [p \in Players |-> FALSE]
    /\ finish_order = <<>>
    /\ game_code = "none"
    /\ discarded = Cardinality(FullDeck)
    /\ pass_run = 0
    /\ last_turn = NoTurn
    /\ pending = NoClear
    /\ step = NoStep

Listening == ServerListening /\ codec = NoCodec

EngineUnchanged ==
    UNCHANGED <<rules, hands, field, current_player, last_player,
                is_revolution, is_eleven_back, is_joker_single,
                consecutive_passes, finished_count, has_passed, has_finished,
                finish_order, game_number, total_games, points, player_rank,
                game_code, discarded, pass_run, last_turn, pending>>

\* a program connects to the listening socket and waits to be accepted
PeerConnects ==
    /\ server.socket = "listening"
    /\ \E c \in Peers :
        /\ peers[c] = "idle"
        /\ peers' = [peers EXCEPT ![c] = "queued"]
        /\ backlog' = Append(backlog, c)
    /\ UNCHANGED <<server, pc, io, step>>
    /\ EngineUnchanged
    /\ UNCHANGED codec

\* accept_players with send_int before the handshake of the connection
AcceptSendsIdFirst ==
    /\ server.at = "accept"
    /\ backlog # <<>>
    /\ LET c == Head(backlog)
       IN  /\ backlog' = Tail(backlog)
           /\ peers' = [peers EXCEPT ![c] = "accepted"]
           /\ server' = [server EXCEPT !.at = "handshake", !.conn = {c},
                                       !.open = @ \cup {c}]
           /\ io' = io \o << <<"accept", c>>, <<"id", c, Len(server.players)>> >>
    /\ UNCHANGED <<pc, step>>
    /\ EngineUnchanged
    /\ UNCHANGED codec

\* accept_players: self._socket.accept() for the next player id
Accept ==
    /\ server.at = "accept"
    /\ backlog # <<>>
    /\ LET c == Head(backlog)
       IN  /\ backlog' = Tail(backlog)
           /\ peers' = [peers EXCEPT ![c] = "accepted"]
           /\ server' = [server EXCEPT !.at = "handshake", !.conn = {c},
                                       !.open = @ \cup {c}]
           /\ io' = Append(io, <<"accept", c>>)
    /\ UNCHANGED <<pc, step>>
    /\ EngineUnchanged
    /\ UNCHANGED codec

\* _handshake: the profile table is read whole (protocol of the profile),
\* or no whole table comes within HANDSHAKE_TIMEOUT (protocol 20060)
HandshakeEnds ==
    /\ server.at = "handshake"
    /\ \E c \in server.conn, how \in {"profile", "timeout"} :
        io' = Append(io, <<how, c>>)
    /\ server' = [server EXCEPT !.at = "send_id"]
    /\ UNCHANGED <<peers, backlog, pc, step>>
    /\ EngineUnchanged
    /\ UNCHANGED codec

\* _handshake: the peer closes, _recv_exact reads zero bytes and raises
\* ConnectionError, which _handshake and accept_players do not catch
HandshakeClosed ==
    /\ server.at = "handshake"
    /\ \E c \in server.conn :
        /\ io' = Append(io, <<"closed", c>>)
        /\ peers' = [peers EXCEPT ![c] = "closed"]
    /\ server' = MainFails(server)
    /\ pc' = "failed"
    /\ UNCHANGED <<backlog, step>>
    /\ EngineUnchanged
    /\ UNCHANGED codec

\* accept_players: the player is appended to _players and sent its id; the
\* loop goes on to the next accept, or ends after the fifth player
SendId ==
    /\ server.at = "send_id"
    /\ \E c \in server.conn :
        /\ io' = Append(io, <<"id", c, Len(server.players)>>)
        /\ server' = [server EXCEPT
                        !.players = Append(@, c),
                        !.conn = {},
                        !.at = IF Len(server.players) + 1 = NumPlayers
                               THEN "connected" ELSE "accept"]
    /\ UNCHANGED <<peers, backlog, pc, step>>
    /\ EngineUnchanged
    /\ UNCHANGED codec

HandshakeNext ==
    \/ PeerConnects
    \/ Accept
    \/ HandshakeEnds
    \/ HandshakeClosed
    \/ SendId

HandshakeSpec == Listening /\ [][HandshakeNext]_vars

\* ------------------------------------------------------ main() as a whole
\* main: accept_players has returned; the event log is opened, the engine is
\* constructed and run_games is called
StartGames ==
    /\ server.at = "connected"
    /\ pc = "accepting"
    /\ server' = [server EXCEPT !.at = "run_games", !.log = "open"]
    /\ pc' = "init_game"
    /\ io' = <<>>
    /\ UNCHANGED <<peers, backlog, step>>
    /\ EngineUnchanged
    /\ UNCHANGED codec

\* recv_table for player p: the peer has closed, _recv_exact raises
\* ConnectionError, nothing in the engine catches it and main returns 1
ReadFails(p, sent) ==
    /\ server.at = "run_games"
    /\ server' = MainFails(server)
    /\ peers' = [peers EXCEPT ![server.players[p + 1]] = "closed"]
    /\ pc' = "failed"
    /\ io' = Append(sent, <<"closed", p>>)
    /\ step' = [kind |-> "closed", player |-> p]
    /\ UNCHANGED backlog
    /\ EngineUnchanged
    /\ UNCHANGED codec

\* run_game, the read of the current player's move
MoveReadFails ==
    /\ pc = "loop"
    /\ finished_count < 4
    /\ ~MustSkip
    /\ ReadFails(current_player, SendAllHandInfo)

\* _get_exchange_cards_from_high, the read of the Daifugo's or the Fugo's
\* selection
ExchangeReadFails ==
    \E high \in {DAIFUGO, FUGO} :
        /\ pc = (IF high = DAIFUGO THEN "exchange" ELSE "exchange_fugo")
        /\ PlayersByRank(player_rank, high) >= 0
        /\ PlayersByRank(player_rank, DAIHINMIN - high) >= 0
        /\ ReadFails(PlayersByRank(player_rank, high), <<>>)

ServerInit == Listening \/ MidTrick \/ BeforeGame

ServerNext ==
    \/ HandshakeNext
    \/ StartGames
    \/ StepNext
    \/ MoveReadFails
    \/ ExchangeReadFails

ServerSpec == ServerInit /\ [][ServerNext]_vars


\* --------------------------------------------------- the codec, applied
\* A table is in hand; the functions of network/protocol.py are applied to
\* it, each at most once: set_cards, to_bytes, from_bytes of the bytes
\* written, get_cards; or an integer is written and read back.
\* The tables drawn hold one of CodecValues in at most MaxCodecCells cells:
\* the corners of the table, of the card rows and of the ranks, the joker's
\* cell, and cells of rows 5 and 6.
CodecInit ==
    /\ ServerListening
    /\ \E v \in CodecValues,
          S \in {T \in SUBSET {<<0, 0>>, <<SPADE, RANK_THREE>>,
                               <<CLUB, RANK_TWO>>, <<CLUB, 14>>,
                               <<JOKER_SUIT, 1>>, <<5, 3>>, <<6, 10>>,
                               <<7, 14>>} :
                  Cardinality(T) <= MaxCodecCells} :
        codec = [NoCodec EXCEPT
                   !.table = [i \in TableRows |-> [j \in TableCols |->
                                IF <<i, j>> \in S THEN v ELSE IntZero]]]

CodecOnly ==
    /\ UNCHANGED <<server, peers, backlog, pc, io, step>>
    /\ EngineUnchanged

\* the card sets drawn: the subsets of six cards, the deck with and without
\* the joker
CallSetCards ==
    /\ codec.cards = {}
    /\ codec.got = {}
    /\ codec.bytes = <<>>
    /\ codec.sent = {}
    /\ ~codec.raised
    /\ \E cards \in SUBSET {<<SPADE, RANK_THREE>>, <<SPADE, RANK_TWO>>,
                             <<HEART, RANK_EIGHT>>, <<CLUB, RANK_THREE>>,
                             <<CLUB, RANK_TWO>>, Joker}
                     \cup {FullDeck, NormalCards} :
        codec' = [codec EXCEPT !.table = SetCards(@, cards),
                               !.cards = {cards}]
    /\ CodecOnly

CallGetCards ==
    /\ codec.got = {}
    /\ codec.sent = {}
    /\ ~codec.raised
    /\ codec' = [codec EXCEPT !.got = {GetCards(codec.table)}]
    /\ CodecOnly

CallToBytes ==
    /\ codec.bytes = <<>>
    /\ codec.sent = {}
    /\ ~codec.raised
    /\ codec' = IF \E i \in TableRows, j \in TableCols :
                       PackRaises(NonNegative(codec.table[i][j]))
                THEN [codec EXCEPT !.raised = TRUE]
                ELSE [codec EXCEPT !.bytes = ToBytes(codec.table)]
    /\ CodecOnly

CallFromBytes ==
    /\ codec.bytes # <<>>
    /\ codec.decoded = {}
    /\ codec' = [codec EXCEPT !.decoded = {FromBytes(codec.bytes)}]
    /\ CodecOnly

CallIntToBytes ==
    /\ codec = NoCodec
    /\ \E value \in CodecValues \cup {IntZero} :
        codec' = IF PackRaises(NonNegative(value))
                 THEN [codec EXCEPT !.sent = {value}, !.raised = TRUE]
                 ELSE [codec EXCEPT !.sent = {value},
                                    !.word = Pack(NonNegative(value))]
    /\ CodecOnly

CallBytesToInt ==
    /\ codec.word # <<>>
    /\ codec.received = {}
    /\ codec' = [codec EXCEPT !.received = {Unpack(codec.word)}]
    /\ CodecOnly

CodecNext ==
    \/ CallSetCards
    \/ CallGetCards
    \/ CallToBytes
    \/ CallFromBytes
    \/ CallIntToBytes
    \/ CallBytesToInt

CodecSpec == CodecInit /\ [][CodecNext]_vars

\* ------------------------------------------------------------------ claims
RECURSIVE SumHands(_)
SumHands(S) ==
    IF S = {} THEN 0
    ELSE LET p == CHOOSE q \in S : TRUE
         IN  Cardinality(hands[p]) + SumHands(S \ {p})

\* C1: when the clients answer every move request, the turn loop ends: the
\* game reaches its end and a game-end code is sent.
C1_TurnLoopTerminates == <>(pc = "done" /\ game_code = "end")

\* C2: once 20 passes have been made in a row with no accepted play between
\* them, the game has ended and all five players have a finish position.
C2_TwentyPassesEndTheGame ==
    pass_run >= SENNICHITE_THRESHOLD =>
        /\ pc = "done"
        /\ Len(finish_order) = NumPlayers
        /\ \A p \in Players : has_finished[p]

\* C3: the first player asked to move after a round clear by universal pass
\* is last-player, when last-player has not finished.
C3_LastPlayerLeadsAfterUniversalPass ==
    (last_turn.after.kind = "all_passed" /\ last_turn.after.live) =>
        last_turn.asked = last_turn.after.leader

\* C4: the first player asked to move after an 8-cut is the player who made
\* the 8-cut, when that player still holds cards.
C4_EightCutPlayerLeadsNext ==
    (last_turn.after.kind = "eight_stop" /\ last_turn.after.live) =>
        last_turn.asked = last_turn.after.leader

\* C5: at every turn boundary the cards in the hands, on the field and off
\* the field are 53 together, and an accepted play takes from the hand as
\* many cards as it puts on the field.
C5_HandConservation ==
    /\ SumHands(Players) + Cardinality(field.cards) + discarded
         = Cardinality(FullDeck)
    /\ last_turn.took = last_turn.put

\* C6: a submission with a card the player does not own (the joker, as
\* itself or as a substitute, included) is never accepted as a play.
C6_NotOwnedNeverAccepted == ~(last_turn.accepted /\ last_turn.not_owned)

\* C7: a submission that uses more than one joker is never accepted as a play.
C7_MultipleJokersNeverAccepted == ~(last_turn.accepted /\ last_turn.jokers > 1)

\* C8: the lock goes from inactive to active only on an accepted play whose
\* suit-pattern is that of the play it is put on in the same trick.
C8_LockOnlyOnRepeatedPattern ==
    [][(~field.is_locked /\ field'.is_locked) =>
          /\ ~FieldIsEmpty(field)
          /\ field'.suit_pattern = field.suit_pattern]_vars

C10_ClearOnlyAfterAllOthersPassed ==
    last_turn.on_field => last_turn.unasked = {}

\* C17: in a turn cycle that requests a move the frames are, in this order
\* and no others: a hand table to each player in player-id order, one read
\* from the current player, one response code to the current player (9 if
\* accepted, 8 otherwise), a field table to each player in player-id order,
\* and one game-state code to each player.
C17_TurnCycleOrder ==
    last_turn.asked >= 0 =>
        /\ Len(io) = 3 * NumPlayers + 2
        /\ \A i \in 1..NumPlayers : io[i] = <<"hand", i - 1>>
        /\ io[NumPlayers + 1] = <<"read", last_turn.asked>>
        /\ io[NumPlayers + 2] =
             <<"response", last_turn.asked,
               IF last_turn.accepted THEN 9 ELSE 8>>
        /\ \A i \in 1..NumPlayers :
             io[NumPlayers + 2 + i] = <<"field", i - 1>>
        /\ \A i \in 1..NumPlayers :
             /\ io[2 * NumPlayers + 2 + i][1] = "state"
             /\ io[2 * NumPlayers + 2 + i][2] = i - 1

\* the cycle of an accepted play that ended the game
C17_Witness ==
    /\ last_turn.asked >= 0
    /\ last_turn.accepted
    /\ pc = "done"
    /\ Len(io) = 3 * NumPlayers + 2

\* the game-state codes of the last turn cycle
StateCodes == {io[i][3] : i \in {j \in DOMAIN io : io[j][1] = "state"}}

\* C18: the game-state code of a turn cycle is 0 exactly when the game
\* continues, 1 exactly when the game has ended and more games remain, 2
\* exactly when the game has ended and was the last of the session; after
\* code 2 the server does not go on to another game, so sends nothing more.
C18_GameStateCodes ==
    last_turn.asked >= 0 =>
        /\ pc = "loop" => StateCodes = {0}
        /\ pc = "done" =>
             StateCodes = {IF game_number < total_games THEN 1 ELSE 2}
        /\ pc = "next_game" => StateCodes = {1}
        /\ pc = "returned" => StateCodes = {2}

\* the second game of a session of two has ended with code 2 and run_games
\* has returned
C18_Witness ==
    /\ pc = "returned"
    /\ game_number = 2
    /\ StateCodes = {ALL_GAMES_END}

\* the single turn of StepSpec is being taken and its play is accepted
StepAccepts == step'.kind = "turn" /\ step'.verdict = "accept"

SpadeThreeSingle(a) ==
    /\ a.card_type = "single"
    /\ a.base_rank = RANK_THREE
    /\ a.suit_pattern = SuitBit(SPADE)

\* C11: a single or group accepted on a field of the same type and count
\* has a strictly greater base rank when is_revolution XOR is_eleven_back is
\* false and a strictly smaller one when it is true; never an equal one.
C11_StrictRankOrder ==
    [][(/\ StepAccepts
        /\ step'.analysis.card_type \in {"single", "pair"}
        /\ step'.analysis.card_type = field.card_type
        /\ step'.analysis.count = field.card_count)
       => IF is_revolution # is_eleven_back
          THEN step'.analysis.base_rank < field.base_rank
          ELSE step'.analysis.base_rank > field.base_rank]_vars

\* a pair has been accepted on a pair under revolution
C11_Witness ==
    /\ step.kind = "turn"
    /\ step.verdict = "accept"
    /\ step.analysis.card_type = "pair"
    /\ step.analysis.count = 2
    /\ is_revolution /\ ~is_eleven_back
    /\ Cardinality(hands[0]) =
          Cardinality(StepCells \cup StepHeld) + 1 - 4

\* C12: a joker-single from a player who holds the joker, on a non-empty
\* field, is accepted exactly when the field is a single.
C12_JokerSingleOnSingleOnly ==
    [][(/\ step'.kind = "turn"
        /\ step'.analysis.card_type = "joker_single"
        /\ Joker \in hands[current_player]
        /\ ~FieldIsEmpty(field))
       => (step'.verdict = "accept" <=> field.card_type = "single")]_vars

\* the joker has been accepted on a locked single
C12_Witness ==
    /\ step.kind = "turn"
    /\ step.verdict = "accept"
    /\ step.analysis.card_type = "joker_single"
    /\ field.cards = {Joker}
    /\ field.lock_count = 3

\* C13: on a field headed by a joker-single the single Spade-3 is accepted,
\* in normal and in revolution order, and nothing else is.
C13_OnlySpadeThreeBeatsJoker ==
    [][(step'.kind = "turn" /\ field.card_type = "joker_single")
       => /\ step'.verdict = "accept" => SpadeThreeSingle(step'.analysis)
          /\ (/\ step'.cards = {<<SPADE, RANK_THREE>>}
              /\ step'.joker_positions = {})
             => step'.verdict = "accept"]_vars

\* the Spade-3 has been accepted on the joker under revolution
C13_Witness ==
    /\ step.kind = "turn"
    /\ step.verdict = "accept"
    /\ step.cards = {<<SPADE, RANK_THREE>>}
    /\ field.cards = {<<SPADE, RANK_THREE>>}
    /\ Joker \notin hands[0]
    /\ is_revolution /\ ~is_eleven_back

\* C14: a play accepted onto a non-empty field has the count of the field
\* and its type, but for a joker-single on a single and the Spade-3 single
\* on a joker-single; the field it leaves, unless cleared, has the same
\* count.
C14_SameCountAndType ==
    [][(StepAccepts /\ ~FieldIsEmpty(field))
       => /\ step'.analysis.count = field.card_count
          /\ \/ step'.analysis.card_type = field.card_type
             \/ /\ step'.analysis.card_type = "joker_single"
                /\ field.card_type = "single"
             \/ /\ SpadeThreeSingle(step'.analysis)
                /\ field.card_type = "joker_single"
          /\ \/ FieldIsEmpty(field')
             \/ field'.card_count = field.card_count]_vars

\* a ladder of three has been accepted on a ladder of three
C14_Witness ==
    /\ step.kind = "turn"
    /\ step.verdict = "accept"
    /\ step.analysis.card_type = "sequence"
    /\ field.card_type = "sequence"
    /\ field.card_count = 3
    /\ field.lock_count >= 2

\* C15: while the lock is active a submission of the field's type and
\* count is accepted only with the field's suit-pattern.
C15_LockedSuitPattern ==
    [][(/\ StepAccepts
        /\ field.is_locked
        /\ step'.analysis.card_type = field.card_type
        /\ step'.analysis.count = field.card_count)
       => step'.analysis.suit_pattern = field.suit_pattern]_vars

\* a single has been accepted on a locked single
C15_Witness ==
    /\ step.kind = "turn"
    /\ step.verdict = "accept"
    /\ step.analysis.card_type = "single"
    /\ field.card_type = "single"
    /\ field.is_locked
    /\ field.lock_count = 3

\* the frames of the last turn cycle that answer the submission
Responses == {i \in DOMAIN io : io[i][1] = "response"}

\* C16: a submission that is not accepted is handled as a pass: hands,
\* is_revolution and last-player are unchanged and code 8 goes to the
\* player alone; the field and is_eleven_back are unchanged, the player's
\* passed flag is set and consecutive-passes grows by one, unless the
\* universal pass that this completes clears the round in the same cycle.
C16_RejectedIsPass ==
    [][(step'.kind = "turn" /\ step'.verdict # "accept")
       => /\ hands' = hands
          /\ is_revolution' = is_revolution
          /\ last_player' = last_player
          /\ \A i \in Responses' : io'[i] = <<"response", current_player, 8>>
          /\ Cardinality(Responses') = 1
          /\ IF last_turn'.all_passed
             THEN /\ field' = EmptyField
                  /\ ~is_eleven_back'
                  /\ consecutive_passes' = 0
                  /\ has_passed' = [p \in Players |-> FALSE]
             ELSE /\ field' = field
                  /\ is_eleven_back' = is_eleven_back
                  /\ consecutive_passes' = consecutive_passes + 1
                  /\ has_passed' =
                       [has_passed EXCEPT ![current_player] = TRUE]]_vars

\* a non-empty submission has been rejected and counted as a pass
C16_Witness ==
    /\ step.kind = "turn"
    /\ step.verdict = "reject"
    /\ step.cards # {}
    /\ has_passed[0]
    /\ consecutive_passes = 1

\* C19: after the deal of any game, whatever the shuffle and the seat the
\* deal starts from, the five hands are pairwise disjoint and their union
\* is the deck of 52 suit cards and the joker.
C19_DealPartitionsDeck ==
    step.kind = "init_game" =>
        /\ \A p, q \in Players : p # q => hands[p] \cap hands[q] = {}
        /\ UNION {hands[p] : p \in Players} = FullDeck
        /\ Cardinality(FullDeck) = 53
        /\ Cardinality(NormalCards) = 52

\* a later game has been dealt from seat 3 with a shuffle of stride 2
C19_Witness ==
    /\ step.kind = "init_game"
    /\ game_number = 2
    /\ step.initial_player = 3
    /\ step.cards[1] = <<SPADE, 2>>
    /\ step.cards[2] = <<SPADE, 4>>
    /\ Joker \in hands[0]

\* the play of the single turn toggles the revolution
RevolutionPlay(a) ==
    \/ a.card_type = "pair" /\ a.count >= 4
    \/ a.card_type = "sequence" /\ a.count >= 5

\* C20: with the revolution rule enabled is_revolution flips in a turn
\* exactly when the play is accepted and is a group of 4 or more cards or a
\* ladder of 5 or more; every other accepted play, pass and round clear
\* leaves it unchanged; and it is false when a game starts.
C20_RevolutionFlips ==
    [][/\ (step'.kind = "turn" /\ rules.revolution)
          => (is_revolution' # is_revolution
              <=> (step'.verdict = "accept"
                   /\ RevolutionPlay(step'.analysis)))
       /\ step'.kind = "init_game" => ~is_revolution']_vars

\* a ladder of five has been accepted and has turned the revolution off
C20_Witness ==
    /\ step.kind = "turn"
    /\ step.verdict = "accept"
    /\ step.analysis.card_type = "sequence"
    /\ step.analysis.count = 5
    /\ ~is_revolution
    /\ field.card_count = 5

\* C21: with the 11-back rule enabled is_eleven_back is never true while
\* the field is empty: every round clear, by universal pass or by 8-cut,
\* leaves it false for the player who leads next.
C21_ElevenBackDiesWithField ==
    (rules.eleven_back /\ FieldIsEmpty(field)) => ~is_eleven_back

\* the players a finish order lists
Listed(order) == {order[i] : i \in DOMAIN order}

\* C22: the game ends exactly when four players have emptied their hands;
\* the returned finish order then lists each of the five players once; a
\* player enters the order in the iteration in which the hand is emptied,
\* behind those who emptied theirs before, and the one player still holding
\* cards when the game ends is placed fifth.
C22_FinishOrder ==
    [][/\ pc' = "done" <=> Cardinality(FinishedIn(hands')) = 4
       /\ Cardinality(FinishedIn(hands')) <= 4
       /\ pc' = "done" =>
             /\ Len(finish_order') = NumPlayers
             /\ Listed(finish_order') = Players
       /\ Len(finish_order') >= Len(finish_order)
       /\ SubSeq(finish_order', 1, Len(finish_order)) = finish_order
       /\ \A p \in Players :
             (hands[p] # {} /\ hands'[p] = {}) =>
                 /\ Len(finish_order') > Len(finish_order)
                 /\ finish_order'[Len(finish_order) + 1] = p
       /\ \A i \in (Len(finish_order) + 1)..Len(finish_order') :
             LET p == finish_order'[i]
             IN  \/ hands[p] # {} /\ hands'[p] = {}
                 \/ /\ pc' = "done"
                    /\ i = NumPlayers
                    /\ hands'[p] # {}]_vars

\* all five players were in the game and player 4 has been placed fifth
\* with cards in hand
C22_Witness ==
    /\ pc = "done"
    /\ rules.eleven_back
    /\ Len(finish_order) = NumPlayers
    /\ finish_order[NumPlayers] = 4
    /\ hands[4] # {}

\* the sum of the totals of players 0..n
RECURSIVE TotalUpTo(_, _)
TotalUpTo(pts, n) == IF n < 0 THEN 0 ELSE pts[n] + TotalUpTo(pts, n - 1)

\* the number of games run_games has awarded points for
GamesAwarded(control, number) ==
    IF control = "returned" THEN number ELSE number - 1

\* the totals pts after n games: they sum to 15 n and each lies in n..5n
TotalsAfter(pts, n) ==
    /\ TotalUpTo(pts, NumPlayers - 1) = 15 * n
    /\ \A p \in Players : n <= pts[p] /\ pts[p] <= 5 * n

\* C23: after each game the players in finish positions 1..5 are awarded
\* 5, 4, 3, 2, 1 points, so that after N games the five totals sum to 15 N
\* and each lies between N and 5 N.
C23_PointsAwarded ==
    [][/\ TotalsAfter(points, GamesAwarded(pc, game_number))
       /\ TotalsAfter(points', GamesAwarded(pc', game_number'))
       /\ (pc = "done" /\ pc' \in {"next_game", "returned"}) =>
             /\ Len(finish_order) = NumPlayers
             /\ \A i \in 1..NumPlayers :
                   points'[finish_order[i]] = points[finish_order[i]] + 6 - i
       /\ ~(pc = "done" /\ pc' \in {"next_game", "returned"}) =>
             points' = points]_vars

\* run_games has returned after two games, both won by player 3
C23_Witness ==
    /\ pc = "returned"
    /\ game_number = 2
    /\ points[3] = 10
    /\ TotalUpTo(points, NumPlayers - 1) = 30

\* run_games has just taken the finish order of a game
GameAwarded == pc = "done" /\ pc' \in {"next_game", "returned"}

\* game 1 is being played or about to be
InGameOne(control, number) == number = 1 /\ control # "returned"

\* C24: every player is Heimin throughout game 1; the ranks change only
\* when a game has ended, and then the player who finished i-th holds the
\* i-th class, the five classes being held by one player each, for all of
\* the next game; the player the next game asks first is the Daifugo, and
\* player 0 in game 1.
C24_ClassRanks ==
    [][/\ InGameOne(pc, game_number) =>
             \A p \in Players : player_rank[p] = HEIMIN
       /\ InGameOne(pc', game_number') =>
             \A p \in Players : player_rank'[p] = HEIMIN
       /\ GameAwarded =>
             /\ Len(finish_order) = NumPlayers
             /\ \A i \in 1..NumPlayers :
                   player_rank'[finish_order[i]] = DAIFUGO + i - 1
       /\ ~GameAwarded => player_rank' = player_rank
       /\ ~InGameOne(pc', game_number') =>
             /\ {player_rank'[p] : p \in Players} = DAIFUGO..DAIHINMIN
             /\ \A p, q \in Players :
                   player_rank'[p] = player_rank'[q] => p = q
       /\ (step'.kind = "init_game" /\ step.kind # "init_game") =>
             /\ ~MustSkip'
             /\ IF game_number = 1 THEN current_player' = 0
                ELSE player_rank[current_player'] = DAIFUGO
             /\ pc = "next_game" => current_player' = finish_order[1]]_vars

\* game 2 has been initialised after a game 1 that players 3, 4, 1 ended
\* in this order, and player 3 is to move first
C24_Witness ==
    /\ step.kind = "init_game"
    /\ game_number = 2
    /\ finish_order[1] = 3
    /\ finish_order[3] = 1
    /\ player_rank[1] = HEIMIN
    /\ player_rank[3] = DAIFUGO
    /\ current_player = 3

\* c is at least as strong as d outside a revolution: the joker above all,
\* then the ranks from 2 down to 3
AtLeastAsStrong(c, d) == c = Joker \/ (d # Joker /\ c[2] >= d[2])

\* the one player of class r
Holder(r) == CHOOSE p \in Players : player_rank[p] = r

\* given are count strongest cards of the hand from, moved to the hand to
StrongestMoved(from, to, count) ==
    LET given == hands[from] \ hands'[from]
    IN  /\ Cardinality(given) = count
        /\ hands'[from] = hands[from] \ given
        /\ hands'[to] = hands[to] \cup given
        /\ given \cap hands[to] = {}
        /\ \A c \in given, d \in hands'[from] : AtLeastAsStrong(c, d)

\* C25: in every game after the first, with the card exchange enabled,
\* the step that sends the initial hands, which reads no frame and comes
\* before the exchange frames are read, moves the 2 strongest cards of the
\* Daihinmin's dealt hand to the Daifugo and the strongest card of the
\* Hinmin's dealt hand to the Fugo, the joker counting as strongest and
\* then the ranks from 2 down to 3.
C25_StrongestCardsMoveFirst ==
    [][/\ (step'.kind = "initial_hands" /\ game_number > 1
           /\ rules.card_exchange) =>
             /\ step.kind = "init_game"
             /\ StrongestMoved(Holder(DAIHINMIN), Holder(DAIFUGO), 2)
             /\ StrongestMoved(Holder(HINMIN), Holder(FUGO), 1)
             /\ hands'[Holder(HEIMIN)] = hands[Holder(HEIMIN)]
             /\ \A i \in DOMAIN io' : io'[i][1] # "read"
       /\ step'.kind = "exchange" =>
             step.kind \in {"initial_hands", "exchange"}]_vars

\* the initial hands of game 2 have been sent and the Daifugo, player 3,
\* holds the joker that was dealt to the Daihinmin, player 2
C25_Witness ==
    /\ step.kind = "initial_hands"
    /\ pc = "exchange"
    /\ game_number = 2
    /\ player_rank[3] = DAIFUGO
    /\ player_rank[2] = DAIHINMIN
    /\ Joker \in hands[3]
    /\ Cardinality(hands[3]) = 13
    /\ Cardinality(hands[2]) = 8

\* C26: when the exchange frame of the Daifugo (n = 2) or of the Fugo
\* (n = 1) does not hold exactly n cards, or holds a card that is not in
\* the giver's hand, the giver's n weakest cards are moved instead; a
\* selection of n cards of the hand is moved as it is; either way the
\* session goes on.
C26_InvalidSelectionGivesWeakest ==
    [][step'.kind = "exchange" =>
         LET giver == step'.giver
             taker == step'.taker
             count == step'.count
             selection == step'.selection
             moved == hands[giver] \ hands'[giver]
         IN  /\ count = IF player_rank[giver] = DAIFUGO THEN 2 ELSE 1
             /\ player_rank[giver] \in {DAIFUGO, FUGO}
             /\ Cardinality(moved) = count
             /\ hands'[giver] = hands[giver] \ moved
             /\ hands'[taker] = hands[taker] \cup moved
             /\ IF Cardinality(selection) = count
                   /\ selection \subseteq hands[giver]
                THEN moved = selection
                ELSE \A c \in moved, d \in hands'[giver] :
                        AtLeastAsStrong(d, c)
             /\ pc' \in {"exchange_fugo", "loop"}]_vars

\* the Fugo's frame named two cards, one of them not held, and the Fugo's
\* weakest card has gone to the Hinmin
C26_Witness ==
    /\ step.kind = "exchange"
    /\ step.count = 1
    /\ pc = "loop"
    /\ Cardinality(step.selection) = 2
    /\ step.selection \cap hands[step.giver] # {}
    /\ \E c \in step.selection :
          c \notin hands[step.giver] /\ c \notin hands[step.taker]

IsAccept(e) == e[1] = "accept"
IsId(e) == e[1] = "id"

\* C27: the handshake is strictly serial.  Player ids 0..4 are given in the
\* order the connections are accepted; each peer is sent its own id, once,
\* and only after its profile table has been read or its handshake has timed
\* out; no connection is accepted before the id of the one before it has
\* been sent; no two peers get the same id, and when accept_players is done
\* all five ids have been sent.
C27_HandshakeIsSerial ==
    LET accepted == SelectSeq(io, IsAccept)
        ids == SelectSeq(io, IsId)
    IN  /\ Len(ids) <= Len(accepted)
        /\ \A n \in 1..Len(ids) : ids[n] = <<"id", accepted[n][2], n - 1>>
        /\ \A m, n \in 1..Len(accepted) :
              accepted[m][2] = accepted[n][2] => m = n
        /\ \A i \in 1..Len(io) :
              IsId(io[i]) =>
                  \E j \in 1..(i - 1) :
                      io[j] \in {<<"profile", io[i][2]>>,
                                 <<"timeout", io[i][2]>>}
        /\ \A i \in 1..Len(io) :
              IsAccept(io[i]) =>
                  Len(SelectSeq(SubSeq(io, 1, i - 1), IsId))
                      = Len(SelectSeq(SubSeq(io, 1, i - 1), IsAccept))
        /\ server.at = "connected" =>
              /\ Len(ids) = NumPlayers
              /\ \A n \in 1..NumPlayers : server.players[n] = ids[n][2]

\* all five are connected, the first accepted is not the first peer, one
\* sent a profile and one was timed out
C27_Witness ==
    /\ server.at = "connected"
    /\ server.players[1] = 3
    /\ server.players[5] = 1
    /\ <<"timeout", 3>> \in {io[i] : i \in 1..Len(io)}
    /\ <<"profile", 1>> \in {io[i] : i \in 1..Len(io)}

\* the peers that hold a player id: the sockets of _players
PlayerSockets(s) == {s.players[i] : i \in 1..Len(s.players)}

\* C28: a wire error is fatal to the session.  When a peer closes its
\* connection while the server reads from it (handshake, exchange selection
\* or move), no further game is played and nothing more is done, the socket
\* of every accepted player and the listening socket are closed, the event
\* log is closed, and the server's result is 1.  Nothing else has this
\* effect: a rejected move or an invalid exchange selection leaves the
\* server, its sockets and its log as they were, and the session goes on.
C28_WireErrorIsFatal ==
    [][/\ server.at # "exited"
       /\ (\E c \in Peers : peers[c] # "closed" /\ peers'[c] = "closed") =>
             /\ server'.result = {1}
             /\ server'.at = "exited"
             /\ server'.socket = "closed"
             /\ PlayerSockets(server) \cap server'.open = {}
             /\ server'.log # "open"
             /\ server.log = "open" => server'.log = "closed"
             /\ pc' = "failed"
             /\ game_number' = game_number
             /\ hands' = hands
             /\ points' = points
       /\ server'.result # {} =>
             \E c \in Peers : peers[c] # "closed" /\ peers'[c] = "closed"
       /\ (step'.kind = "turn" /\ pc = "loop") =>
             /\ server' = server
             /\ pc' # "failed"
       /\ step'.kind = "exchange" =>
             /\ server' = server
             /\ pc' # "failed"]_vars

\* the Fugo of the second game closed while its selection was read
C28_Witness ==
    /\ pc = "failed"
    /\ step.kind = "closed"
    /\ game_number = 2
    /\ player_rank[step.player] = FUGO
    /\ server.result = {1}
    /\ server.socket = "closed"
    /\ server.open = {}
    /\ server.log = "closed"

\* a value of 0..2^32-1
IsUnsigned32(v) == ~v.neg /\ v.hi < Radix /\ v.lo < Radix

\* C29: the table round trip.  to_bytes of a table whose cells are all
\* non-negative 32-bit values gives exactly 480 bytes, and from_bytes of
\* them gives the table back cell for cell; a negative cell is written as 0
\* and reads back as 0, and so does a negative integer sent on its own
\* (int_to_bytes / bytes_to_int), while a non-negative one reads back as
\* sent.
C29_TableRoundTrip ==
    LET t == codec.table
        fits == \A i \in TableRows, j \in TableCols :
                    IsUnsigned32(t[i][j]) \/ t[i][j].neg
        plain == \A i \in TableRows, j \in TableCols : IsUnsigned32(t[i][j])
    IN  /\ (fits /\ codec.sent = {}) => ~codec.raised
        /\ codec.bytes # <<>> =>
              /\ Len(codec.bytes) = TABLE_BYTES
              /\ \A k \in 1..Len(codec.bytes) : codec.bytes[k] \in 0..(255)
              /\ \A i \in TableRows, j \in TableCols :
                    t[i][j].neg =>
                        SubSeq(codec.bytes, (i * TABLE_COLS + j) * 4 + 1,
                               (i * TABLE_COLS + j) * 4 + 4) = <<0, 0, 0, 0>>
        /\ \A d \in codec.decoded :
              /\ plain => d = t
              /\ \A i \in TableRows, j \in TableCols :
                    /\ IsUnsigned32(t[i][j]) => d[i][j] = t[i][j]
                    /\ t[i][j].neg => d[i][j] = IntZero
        /\ \A value \in codec.sent :
              /\ (IsUnsigned32(value) \/ value.neg) =>
                    /\ ~codec.raised
                    /\ Len(codec.word) = 4
              /\ value.neg => codec.word = <<0, 0, 0, 0>>
              /\ \A got \in codec.received :
                    got = IF value.neg THEN IntZero ELSE value

\* the table whose last cell is 2^32 - 1 has come back from its 480 bytes
C29_Witness ==
    /\ codec.decoded = {codec.table}
    /\ codec.table[TABLE_ROWS - 1][TABLE_COLS - 1] = IntOf(Radix - 1, Radix - 1)
    /\ Len(codec.bytes) = TABLE_BYTES
    /\ codec.bytes[TABLE_BYTES] = 255

\* C30: the card round trip.  get_cards of a table on which set_cards(C)
\* was performed returns exactly C, for every set C of cards of the deck,
\* with or without the joker, whatever the table held before.
C30_CardRoundTrip ==
    \A cards \in codec.cards, got \in codec.got : got = cards

\* the Spade 2 and the joker were set on a table whose last cell is 2, and
\* were read back
C30_Witness ==
    /\ codec.cards = {{<<SPADE, RANK_TWO>>, Joker}}
    /\ codec.got = codec.cards
    /\ codec.table[TABLE_ROWS - 1][TABLE_COLS - 1] = IntOf(0, 2)

\* the classification of the submission of a turn, with a ladder needing at
\* least least positions occupied
ClassifiedAs(turn, least) ==
    LET cards == turn.cards
        pos == (cards \ {Joker}) \cup turn.joker_positions
        n == Cardinality(pos)
        a == turn.analysis
    IN  IF cards = {}
        THEN a.card_type = "empty" /\ a.error = "none" /\ a.count = 0
        ELSE IF cards = {Joker}
        THEN a.card_type = "joker_single" /\ a.error = "none"
        ELSE IF Cardinality(cards) = 1
        THEN /\ a.card_type = "single"
             /\ a.error = "none"
             /\ \E c \in pos : /\ a.suit_pattern = SuitBit(c[1])
                               /\ a.base_rank = c[2]
        ELSE IF /\ n >= least
                /\ Cardinality({c[1] : c \in pos}) = 1
                /\ MaxRank(pos) - MinRank(pos) + 1 = n
        THEN /\ a.card_type = "sequence"
             /\ a.count = n
             /\ a.error = (IF n < 3 THEN "sequence_too_short" ELSE "none")
             /\ n < 3 => turn.verdict # "accept"
        ELSE IF n >= 1 /\ Cardinality({c[2] : c \in pos}) = 1
        THEN /\ a.card_type = "pair"
             /\ a.error = "none"
             /\ a.count = n
             /\ a.suit_pattern = SuitPatternOf(pos)
             /\ a.base_rank = MinRank(pos)
        ELSE a.card_type = "empty" /\ a.error = "count_mismatch"

\* C31 as stated: zero cards is empty; the joker alone is joker-single; one
\* normal card is single with suit-pattern 1 << suit; two or more occupied
\* positions of one suit with consecutive ranks are a ladder, too short below
\* 3 and then rejected; otherwise positions of one rank are a group with the
\* OR of 1 << suit; anything else is count-mismatch.
C31_AnalyzerClassification ==
    [][step'.kind = "turn" => ClassifiedAs(step', 2)]_vars

\* C31 amended: the same, but a submission of more than one card is a ladder
\* already when its occupied positions, one or more, are of one suit with
\* consecutive ranks: one normal card submitted together with the joker
\* played as itself is a ladder of count 1, too short, and is rejected.
C31_AnalyzerClassificationAmended ==
    [][step'.kind = "turn" => ClassifiedAs(step', 1)]_vars

\* the Spade 3 was submitted with the joker as itself and was analyzed as a
\* ladder of one card, too short, and rejected
C31_Witness ==
    /\ step.kind = "turn"
    /\ step.cards = {<<SPADE, RANK_THREE>>, Joker}
    /\ step.joker_positions = {}
    /\ step.analysis.card_type = "sequence"
    /\ step.analysis.count = 1
    /\ step.analysis.error = "sequence_too_short"
    /\ step.verdict # "accept"

\* the cells a submitted ladder occupies, the joker at the cell it stands for
LadderCells(turn) == (turn.cards \ {Joker}) \cup turn.joker_positions

\* a ladder without error, held by the player to move, is submitted on a
\* ladder field of the same length whose lock, if any, it satisfies
LadderOnLadder(turn) ==
    /\ turn.kind = "turn"
    /\ field.card_type = "sequence"
    /\ turn.analysis.card_type = "sequence"
    /\ turn.analysis.error = "none"
    /\ turn.analysis.count = field.card_count
    /\ CheckHandContains(hands[current_player], turn.cards,
                         turn.joker_positions)
    /\ field.is_locked => turn.analysis.suit_pattern = field.suit_pattern

\* C32: a ladder submitted on a ladder field of the same length is accepted
\* exactly when, in the order in force at the submission, its run beats the
\* field's run: highest rank below the field's highest under effective
\* revolution, lowest rank above the field's lowest otherwise, also when
\* the order was toggled after the field's ladder was played.
C32_LadderRunAgainstRun ==
    [][LadderOnLadder(step')
       => (step'.verdict = "accept"
           <=> IF is_revolution # is_eleven_back
               THEN MaxRank(LadderCells(step')) < MaxRank(field.cards)
               ELSE MinRank(LadderCells(step')) > MinRank(field.cards))]_vars

C34_AskedOnlyInTrick ==
    [][/\ last_turn'.asked >= 0 =>
             /\ ~last_turn'.finished
             /\ ~last_turn'.passed_on_field
       /\ \A p \in Players :
             (has_passed[p] /\ ~has_passed'[p]) => FieldIsEmpty(field')]_vars

\* after a turn the player next in line has passed on the field that is
\* still up, and is skipped
C34_Witness ==
    /\ pc = "loop"
    /\ last_turn.asked >= 0
    /\ last_turn.asked # current_player
    /\ ~has_finished[current_player]
    /\ has_passed[current_player]
    /\ ~FieldIsEmpty(field)

\* C35: is_joker_single is true exactly in the states whose field is headed
\* by a joker-single: an accepted joker-single sets it, every other accepted
\* play and every round clear takes it back, so the Spade-3 override never
\* applies to another field.
C35_JokerSingleFlagTracksField ==
    is_joker_single <=> field.card_type = "joker_single"

\* the joker-single heading the field has been beaten by the 3 of spades
C35_Witness ==
    /\ last_turn.accepted
    /\ field.cards = {<<SPADE, RANK_THREE>>}
    /\ last_turn.after = NoClear
    /\ Joker \notin UNION {hands[p] : p \in Players}
    /\ ~is_joker_single

\* C36: the game_end record of a game carries the classes derived from that
\* game's finish order: the player at finish position i has the i-th class,
\* daifugo for the winner and daihinmin for the last.
C36_GameEndCarriesNewRanks ==
    pc = "done" =>
        \A i \in DOMAIN finish_order :
            last_turn.new_ranks[finish_order[i]] = DAIFUGO + i - 1

\* C37: when a reference client is asked to move on a non-empty field, the
\* count, the rank and the ladder/group kind its follow logic uses are
\* those of the cards heading the trick.
C37_AgentFollowsTheField ==
    [][(step'.kind = "turn" /\ ~FieldIsEmpty(field))
       => /\ step'.state.qty = field.card_count
          /\ step'.state.sequence <=> field.card_type = "sequence"
          /\ field.cards # {Joker} =>
                step'.state.ord \in {c[2] : c \in field.cards \ {Joker}}]_vars

\* C38: in the turn loop consecutive_passes is at most the number of
\* unfinished players minus one, every round clear taking it back to 0; it
\* stays below the sennichite threshold in every state, so that
\* _resolve_sennichite is never executed.
C38_PassesBelowSennichite ==
    /\ pc = "loop" =>
          consecutive_passes
              <= Cardinality({p \in Players : ~has_finished[p]}) - 1
    /\ consecutive_passes < SENNICHITE_THRESHOLD
    /\ consecutive_passes <= NumPlayers - 1

\* three of five unfinished players have passed in a row; the next pass
\* clears the field
C38_Witness ==
    /\ pc = "loop"
    /\ finished_count = 0
    /\ consecutive_passes = NumPlayers - 2
    /\ ~last_turn.accepted
    /\ last_turn.asked >= 0

\* C39: when the exchange phase of a game is over, whatever the tables the
\* Daifugo and the Fugo answered with, every player holds as many cards as
\* were dealt to them and the five hands are a partition of the deck.
C39_ExchangePreservesHands ==
    (pc = "loop" /\ step.kind \in {"initial_hands", "exchange", "no_exchange"})
    => /\ \A p \in Players : Cardinality(hands[p]) = step.dealt[p]
       /\ UNION {hands[p] : p \in Players} = FullDeck
       /\ \A p, q \in Players : p # q => hands[p] \cap hands[q] = {}

\* the exchanges of game 2 are over; the Fugo answered with two cards and
\* the weakest card was taken instead
C39_Witness ==
    /\ pc = "loop"
    /\ game_number = 2
    /\ step.kind = "exchange"
    /\ step.count = 1
    /\ Cardinality(step.selection) = 2
    /\ \E p \in Players : step.dealt[p] = 10

\* C40: in every game the reference clients that send an exchange frame
\* are the clients from which the server makes an exchange read, the
\* Daifugo and the Fugo of a game after the first with card exchange
\* enabled and nobody otherwise: every exchange read is from a client that
\* has sent a frame not yet read, and when the turn loop is entered no
\* frame sent is left unread.
C40_ExchangeFramesMatchReads ==
    [][/\ step'.kind = "exchange" =>
             /\ step'.giver \in step.senders \ step.read
             /\ game_number > 1 /\ rules.card_exchange
             /\ player_rank[step'.giver] \in {DAIFUGO, FUGO}
       /\ (/\ pc' = "loop"
           /\ step'.kind \in {"initial_hands", "exchange", "no_exchange"}) =>
             /\ step'.senders = step'.read
             /\ step'.read =
                   IF game_number > 1 /\ rules.card_exchange
                   THEN {p \in Players : player_rank[p] \in {DAIFUGO, FUGO}}
                   ELSE {}]_vars

\* the exchanges of game 2 are over: the Daifugo and the Fugo have sent a
\* frame each and both frames have been read
C40_Witness ==
    /\ pc = "loop"
    /\ game_number = 2
    /\ step.kind = "exchange"
    /\ Cardinality(step.read) = 2
    /\ step.senders = step.read

====
